---- MODULE Spec2Model ----
(***************************************************************************)
(* Portfolio analysis and optimization endpoints of StockMarketApp         *)
(* (backend/app/api/v1/routers/stock_router.py, lines 1142-1987).          *)
(*                                                                         *)
(* Numbers are fixed point.  Weights are rationals num/den of the whole    *)
(* portfolio; a solver returns them in percent (den = Scale).  Returns are *)
(* in basis points (1e-4), variances in 1e-4, volatilities in percent,     *)
(* Sharpe ratios and scores in hundredths.  Symbols are sequences of       *)
(* character codes, so that str.upper() is computed, not assumed.          *)
(***************************************************************************)
EXTENDS Integers, Sequences, FiniteSets, TLC

VARIABLES market, served, endpoint, req, pc, idx, portfolio_data, price_data, stats, result,
          response, solver, calls, runs, fetchlog

vars == <<market, served, endpoint, req, pc, idx, portfolio_data, price_data, stats, result,
          response, solver, calls, runs, fetchlog>>

(***************************************************************************)
(* Bounds of the model and constants of the program                        *)
(***************************************************************************)
\* longest request whose assets are enumerated freely
MaxLen == 2

\* the requests one process answers after its first one
MaxServed == 1
\* slack, in weight units, that the SLSQP solve leaves on sum(x) - 1 = 0
SumTol == 1

MinAssets == 2
MaxAssets == 20
Scale == 100
WeightMin == 1
WeightMax == 80
RiskFree == 250
TradingDays == 252

(***************************************************************************)
(* Generic helpers                                                         *)
(***************************************************************************)
Range(s) == {s[k] : k \in DOMAIN s}

Abs(x) == IF x < 0 THEN 0 - x ELSE x

Max2(a, b) == IF b > a THEN b ELSE a

RECURSIVE SumSeq(_)
SumSeq(s) == IF s = <<>> THEN 0 ELSE s[1] + SumSeq(Tail(s))

\* sum of f[k] over the keys listed in the sequence ks
SumOver(f, ks) == SumSeq([k \in DOMAIN ks |-> f[ks[k]]])

\* np.sqrt, rounded down to the unit: the largest r with r * r <= n
RECURSIVE SqrtFrom(_, _)
SqrtFrom(n, r) == IF (r + 1) * (r + 1) > n THEN r ELSE SqrtFrom(n, r + 1)

ISqrt(n) == IF n <= 0 THEN 0 ELSE SqrtFrom(n, 0)

\* symbols taken as they are spelled
AsSpelled(s) == s

\* str.upper() on a sequence of character codes
Upper(s) == [k \in DOMAIN s |-> IF s[k] \in 97..122 THEN s[k] - 32 ELSE s[k]]

\* a Python dict as a sequence of [key, val] in insertion order
Keys(d) == [k \in DOMAIN d |-> d[k].key]

HasKey(d, key) == \E k \in DOMAIN d : d[k].key = key

Get(d, key) == d[CHOOSE k \in DOMAIN d : d[k].key = key].val

DictSet(d, key, val) ==
    IF HasKey(d, key)
    THEN [k \in DOMAIN d |-> IF d[k].key = key THEN [key |-> key, val |-> val] ELSE d[k]]
    ELSE Append(d, [key |-> key, val |-> val])

(***************************************************************************)
(* Optimizer results.  A result dict carries either "error" or "weights"   *)
(* with its metrics.  An error message is kept as the pair of the method   *)
(* it names and the reason it gives.                                       *)
(***************************************************************************)
Methods == <<"risk_parity", "markowitz", "hybrid", "black_litterman">>

MethodSet == Range(Methods)

Absent == [absent |-> TRUE]

\* the benchmark before the risk metrics block has asked the provider for it
Unfetched == [kind |-> "unfetched"]

IsAbsent(r) == "absent" \in DOMAIN r

IsError(r) == "error" \in DOMAIN r

HasWeights(r) == "weights" \in DOMAIN r

\* a weights dict {symbol: float}: num is the dict of numerators, in insertion
\* order, over the common denominator den
EmptyWeights == [num |-> <<>>, den |-> 1]

\* result.get(method, {}).get("weights", {})
WeightsOrEmpty(r) == IF HasWeights(r) THEN r.weights ELSE EmptyWeights

WKeys(w) == Range(Keys(w.num))

RECURSIVE GCD(_, _)
GCD(a, b) == IF b = 0 THEN a ELSE GCD(b, a % b)

RECURSIVE GCDSeq(_)
GCDSeq(s) == IF s = <<>> THEN 0 ELSE GCD(s[1], GCDSeq(Tail(s)))

\* the same rational weights in lowest terms (value unchanged)
Reduced(w) ==
    LET g == GCD(w.den, GCDSeq([k \in DOMAIN w.num |-> w.num[k].val]))
    IN  IF g <= 1 THEN w
        ELSE [num |-> [k \in DOMAIN w.num |-> [key |-> w.num[k].key, val |-> w.num[k].val \div g]],
              den |-> w.den \div g]

\* weights dict as a function over the symbols it holds
WFun(w) == [s \in WKeys(w) |-> Get(w.num, s)]

(***************************************************************************)
(* Portfolio metrics, as computed after each solve                         *)
(***************************************************************************)
\* np.sum(mean_returns * weights), in basis points
PortfolioReturn(st, wnum, wden) ==
    SumSeq([k \in DOMAIN st.symbols |-> st.mean[st.symbols[k]] * wnum[st.symbols[k]]]) \div wden

\* weights.T @ cov @ weights, in 1e-4
PortfolioVariance(st, wnum, wden) ==
    SumSeq([k \in DOMAIN st.symbols |->
        SumSeq([l \in DOMAIN st.symbols |->
            wnum[st.symbols[k]] * wnum[st.symbols[l]] * st.cov[st.symbols[k]][st.symbols[l]]])])
      \div (wden * wden)

PortfolioVolatility(st, wnum, wden) == ISqrt(PortfolioVariance(st, wnum, wden))

SharpeRatio(ret, vol, rf) == IF vol > 0 THEN (ret - rf) \div vol ELSE 0

Metrics(st, wnum, wden, rf) ==
    LET ret == PortfolioReturn(st, wnum, wden)
        vol == PortfolioVolatility(st, wnum, wden)
    IN  [expected_return |-> ret, volatility |-> vol, sharpe_ratio |-> SharpeRatio(ret, vol, rf)]

(***************************************************************************)
(* optimize_hybrid                                                         *)
(***************************************************************************)
\* hybrid_weights before normalization: for each symbol of rp_weights that is
\* in mv_weights, (rp + mv) / 2, here over the denominator 2 * rp.den * mv.den
\* a combination that takes the risk parity weight of each common symbol
RECURSIVE HybridAveragesRiskParityOnly(_, _, _)
HybridAveragesRiskParityOnly(rpnum, rp, mv) ==
    IF rpnum = <<>> THEN <<>>
    ELSE LET s == rpnum[1].key
             rest == HybridAveragesRiskParityOnly(Tail(rpnum), rp, mv)
         IN  IF HasKey(mv.num, s)
             THEN <<[key |-> s, val |-> 2 * rpnum[1].val * mv.den]>> \o rest
             ELSE rest

RECURSIVE HybridAverages(_, _, _)
HybridAverages(rpnum, rp, mv) ==
    IF rpnum = <<>> THEN <<>>
    ELSE LET s == rpnum[1].key
             rest == HybridAverages(Tail(rpnum), rp, mv)
         IN  IF HasKey(mv.num, s)
             THEN <<[key |-> s, val |-> rpnum[1].val * mv.den + Get(mv.num, s) * rp.den]>> \o rest
             ELSE rest

HybridWeights(rp, mv) ==
    LET avg == HybridAverages(rp.num, rp, mv)
        total == SumSeq([k \in DOMAIN avg |-> avg[k].val])
    IN  Reduced([num |-> avg, den |-> total])

optimize_hybrid(rp_weights, mv_weights, st, rf) ==
    IF rp_weights.num = <<>> \/ mv_weights.num = <<>>
    THEN [error |-> <<"hybrid", "requires both risk parity and markowitz">>]
    ELSE LET avg == HybridAverages(rp_weights.num, rp_weights, mv_weights)
             hw == HybridWeights(rp_weights, mv_weights)
         IN  IF avg = <<>>
             THEN [error |-> <<"hybrid", "no common symbols">>]
             ELSE IF hw.den = 0 \/ ~(Range(st.symbols) \subseteq WKeys(hw))
             THEN [error |-> <<"hybrid", "exception">>]
             ELSE [weights |-> hw, methodology |-> "50/50"]
                    @@ Metrics(st, WFun(hw), hw.den, rf)

(***************************************************************************)
(* The SLSQP solves.  scipy's minimize is a library call: its outcome is a *)
(* function of the method and of the statistics that the model does not    *)
(* compute, so it is drawn once per request.  A successful solve returns a *)
(* point within the bounds it was given and with sum(x) - 1 within the     *)
(* solver's slack; the solve may also fail to converge, or raise.          *)
(***************************************************************************)
SolverMethods == {"risk_parity", "markowitz", "black_litterman"}

\* candidate solutions, in percent, by column
Patterns == {<<50, 50>>, <<19, 80>>, <<1, 19, 80>>, <<1, 20, 80>>, <<34, 33, 33>>}

\* bounds = (0.01, 0.8) per asset, constraint sum(x) - 1 = 0
Feasible(x) ==
    /\ \A k \in DOMAIN x : WeightMin <= x[k] /\ x[k] <= WeightMax
    /\ Abs(SumSeq(x) - Scale) <= SumTol

SolverOutcomes(n) ==
    {[kind |-> "failed"], [kind |-> "raised"]}
      \cup {[kind |-> "converged", x |-> x] : x \in {p \in Patterns : Len(p) = n /\ Feasible(p)}}

\* {symbol: float(weight) for symbol, weight in zip(columns, weights)}
WeightsDict(columns, x) ==
    [num |-> [k \in 1..(IF Len(columns) < Len(x) THEN Len(columns) ELSE Len(x))
                 |-> [key |-> columns[k], val |-> x[k]]],
     den |-> Scale]

\* a result that reports the failure next to the weights of the last iterate
SolvedResultWithIterate(tag, o, st, rf, extra) ==
    IF o.kind = "converged"
    THEN LET w == WeightsDict(st.symbols, o.x)
         IN  [weights |-> w] @@ Metrics(st, WFun(w), w.den, rf) @@ extra
    ELSE [error |-> <<tag, "failed to converge">>, weights |-> EmptyWeights]

SolvedResult(tag, o, st, rf, extra) ==
    IF o.kind = "converged"
    THEN LET w == WeightsDict(st.symbols, o.x)
         IN  [weights |-> w] @@ Metrics(st, WFun(w), w.den, rf) @@ extra
    ELSE IF o.kind = "failed"
    THEN [error |-> <<tag, "failed to converge">>]
    ELSE [error |-> <<tag, "exception">>]

optimize_risk_parity(o, st, rf) ==
    SolvedResult("risk_parity", o, st, rf, [methodology |-> "Equal Risk Contribution"])

optimize_markowitz(o, st, objective, target_return, rf) ==
    SolvedResult("markowitz", o, st, rf,
                 [objective |-> objective,
                  target_return |-> IF objective = "target_return" THEN {target_return} ELSE {}])

optimize_black_litterman(o, st, rf) ==
    SolvedResult("black_litterman", o, st, rf, [confidence |-> 75])

(***************************************************************************)
(* determine_optimal_selection                                             *)
(***************************************************************************)
\* method.replace('_', ' ').title()
DisplayName(method) ==
    CASE method = "risk_parity" -> "Risk Parity"
      [] method = "markowitz" -> "Markowitz"
      [] method = "hybrid" -> "Hybrid"
      [] method = "black_litterman" -> "Black Litterman"

MethodBonus(method) ==
    CASE method = "risk_parity" -> 5
      [] method = "markowitz" -> 8
      [] method = "hybrid" -> 10
      [] method = "black_litterman" -> 7
      [] OTHER -> 0

\* a score whose volatility term is not floored at 0
TotalScoreUnfloored(method, data) ==
    data.sharpe_ratio * 25 + data.expected_return + (2500 - data.volatility * 100)
      + MethodBonus(method) * 100

\* sharpe * 25 + return * 100 + max(0, 25 - volatility * 100) + bonus, in hundredths
TotalScore(method, data) ==
    LET sharpe_score == data.sharpe_ratio * 25
        return_score == data.expected_return
        volatility_score == Max2(0, 2500 - data.volatility * 100)
    IN  sharpe_score + return_score + volatility_score + MethodBonus(method) * 100

\* the scores dict: the methods, in the fixed order, that are in the results
\* and carry no error
RECURSIVE Scores(_, _)
Scores(results, ms) ==
    IF ms = <<>> THEN <<>>
    ELSE IF ~IsAbsent(results[ms[1]]) /\ ~IsError(results[ms[1]])
         THEN <<[key |-> ms[1],
                 val |-> [score |-> TotalScore(ms[1], results[ms[1]]), data |-> results[ms[1]]]]>>
                \o Scores(results, Tail(ms))
         ELSE Scores(results, Tail(ms))

\* a selection that keeps the lowest score
RECURSIVE MaxKeyLowest(_, _)
MaxKeyLowest(scores, best) ==
    IF scores = <<>> THEN best
    ELSE MaxKeyLowest(Tail(scores), IF scores[1].val.score < best.val.score THEN scores[1] ELSE best)

\* max(scores.keys(), key=score): the first key, in insertion order, that no
\* later key strictly beats
RECURSIVE MaxKey(_, _)
MaxKey(scores, best) ==
    IF scores = <<>> THEN best
    ELSE MaxKey(Tail(scores), IF scores[1].val.score > best.val.score THEN scores[1] ELSE best)

\* the sort without reverse=True
RECURSIVE InsertAsc(_, _)
InsertAsc(sorted, e) ==
    IF sorted = <<>> THEN <<e>>
    ELSE IF sorted[1].score <= e.score THEN <<sorted[1]>> \o InsertAsc(Tail(sorted), e)
    ELSE <<e>> \o sorted

\* list.sort(key=score, reverse=True): stable, descending
RECURSIVE InsertDesc(_, _)
InsertDesc(sorted, e) ==
    IF sorted = <<>> THEN <<e>>
    ELSE IF sorted[1].score >= e.score THEN <<sorted[1]>> \o InsertDesc(Tail(sorted), e)
    ELSE <<e>> \o sorted

\* a descending sort that puts equal scores in the reverse of their order
RECURSIVE SortDescReversingTies(_)
SortDescReversingTies(l) ==
    IF l = <<>> THEN <<>> ELSE InsertDesc(SortDescReversingTies(Tail(l)), l[1])

\* sorted by insertion from the left, so equal scores keep their order
RECURSIVE SortDesc(_)
SortDesc(l) ==
    IF l = <<>> THEN <<>> ELSE InsertDesc(SortDesc(SubSeq(l, 1, Len(l) - 1)), l[Len(l)])

MethodComparison(scores) ==
    SortDesc([k \in DOMAIN scores |-> [name |-> DisplayName(scores[k].key), score |-> scores[k].val.score]])

determine_optimal_selection(optimization_results) ==
    LET scores == Scores(optimization_results, Methods)
    IN  IF scores = <<>>
        THEN [error |-> <<"optimal_selection", "no valid methods">>]
        ELSE LET best == MaxKey(Tail(scores), scores[1])
             IN  [best_method |-> DisplayName(best.key),
                  optimal_weights |-> best.val.data.weights,
                  expected_return |-> best.val.data.expected_return,
                  volatility |-> best.val.data.volatility,
                  total_score |-> best.val.score,
                  method_comparison |-> MethodComparison(scores)]

(***************************************************************************)
(* generate_optimization_recommendations                                   *)
(***************************************************************************)
RECURSIVE ValidMethods(_, _)
ValidMethods(results, ms) ==
    IF ms = <<>> THEN <<>>
    ELSE IF ~IsAbsent(results[ms[1]]) /\ ~IsError(results[ms[1]])
         THEN <<ms[1]>> \o ValidMethods(results, Tail(ms))
         ELSE ValidMethods(results, Tail(ms))

RECURSIVE MaxSeq(_)
MaxSeq(s) == IF Len(s) = 1 THEN s[1] ELSE Max2(s[1], MaxSeq(Tail(s)))

\* rules whose thresholds include the threshold value itself
RecommendationsInclusive(optimization_results, request) ==
    LET valid_methods == ValidMethods(optimization_results, Methods)
        volatilities == [k \in DOMAIN valid_methods |-> optimization_results[valid_methods[k]].volatility]
        sharpe_ratios == [k \in DOMAIN valid_methods |-> optimization_results[valid_methods[k]].sharpe_ratio]
        vsum == SumSeq(volatilities)
        vlen == Len(volatilities)
        n_assets == Len(request.assets)
        limited == IF Len(valid_methods) < 2 THEN <<"Metodos Limitados">> ELSE <<>>
        vol == IF vlen = 0 THEN <<>>
               ELSE IF vsum >= 25 * vlen THEN <<"Alta Volatilidad">>
               ELSE IF vsum < 10 * vlen THEN <<"Baja Volatilidad">>
               ELSE <<>>
        sharpe == IF sharpe_ratios = <<>> THEN <<>>
                  ELSE IF MaxSeq(sharpe_ratios) > 150 THEN <<"Excelente Ratio Sharpe">>
                  ELSE IF MaxSeq(sharpe_ratios) <= 50 THEN <<"Ratio Sharpe Bajo">>
                  ELSE <<>>
        count == IF n_assets < 5 THEN <<"Diversificacion Limitada">>
                 ELSE IF n_assets >= 15 THEN <<"Portafolio Complejo">>
                 ELSE <<>>
        risk_level == IF vlen = 0 THEN "MEDIO"
                      ELSE IF vsum >= 20 * vlen THEN "ALTO"
                      ELSE IF vsum >= 12 * vlen THEN "MEDIO"
                      ELSE "BAJO"
    IN  [suggestions |-> limited \o vol \o sharpe \o count,
         risk_assessment |-> [level |-> risk_level]]

\* avg_volatility = sum / len is compared through sum and len: avg > t/100
\* iff sum * 100 > t * len, with volatilities in percent
generate_optimization_recommendations(optimization_results, request) ==
    LET valid_methods == ValidMethods(optimization_results, Methods)
        volatilities == [k \in DOMAIN valid_methods |-> optimization_results[valid_methods[k]].volatility]
        sharpe_ratios == [k \in DOMAIN valid_methods |-> optimization_results[valid_methods[k]].sharpe_ratio]
        vsum == SumSeq(volatilities)
        vlen == Len(volatilities)
        n_assets == Len(request.assets)
        limited == IF Len(valid_methods) < 2 THEN <<"Metodos Limitados">> ELSE <<>>
        vol == IF vlen = 0 THEN <<>>
               ELSE IF vsum > 25 * vlen THEN <<"Alta Volatilidad">>
               ELSE IF vsum < 10 * vlen THEN <<"Baja Volatilidad">>
               ELSE <<>>
        sharpe == IF sharpe_ratios = <<>> THEN <<>>
                  ELSE IF MaxSeq(sharpe_ratios) > 150 THEN <<"Excelente Ratio Sharpe">>
                  ELSE IF MaxSeq(sharpe_ratios) < 50 THEN <<"Ratio Sharpe Bajo">>
                  ELSE <<>>
        count == IF n_assets < 5 THEN <<"Diversificacion Limitada">>
                 ELSE IF n_assets > 15 THEN <<"Portafolio Complejo">>
                 ELSE <<>>
        risk_level == IF vlen = 0 THEN "MEDIO"
                      ELSE IF vsum > 20 * vlen THEN "ALTO"
                      ELSE IF vsum > 12 * vlen THEN "MEDIO"
                      ELSE "BAJO"
    IN  [suggestions |-> limited \o vol \o sharpe \o count,
         risk_assessment |-> [level |-> risk_level]]

(***************************************************************************)
(* The price provider, obtener_datos_accion_json: an external collaborator.*)
(* A call raises, returns nothing usable, or returns a "data" list of      *)
(* points; Close = 0 or Date = 0 stands for a missing (falsy) field.       *)
(* Series with usable prices have at least three of them, so that the      *)
(* return matrix has the two rows its covariance needs.                    *)
(***************************************************************************)
Points(closes, first) == [k \in DOMAIN closes |-> [Close |-> closes[k], Date |-> first + k - 1]]

SeriesLong == Points(<<1000, 1005, 1000, 1010>>, 1)

SeriesGap == Points(<<300, 0, 303, 300>>, 1)

SeriesUnusable == Points(<<0, 0>>, 3)

Catalog == {SeriesLong, SeriesGap, SeriesUnusable}

ProviderOutcomes ==
    {[kind |-> "raise"], [kind |-> "ok", data |-> <<>>]}
      \cup {[kind |-> "ok", data |-> d] : d \in Catalog}

\* not stock_data or "data" not in stock_data or not stock_data["data"]
NoData(o) == o.kind = "none" \/ o.data = <<>>

(***************************************************************************)
(* Requests                                                                *)
(***************************************************************************)
\* "A", "a", "B" at 50 percent and "C" at 70 percent
Entries ==
    {[symbol |-> <<65>>, weight |-> 50], [symbol |-> <<97>>, weight |-> 50],
     [symbol |-> <<66>>, weight |-> 50], [symbol |-> <<67>>, weight |-> 70]}

RECURSIVE SeqsUpTo(_, _)
SeqsUpTo(S, n) ==
    IF n = 0 THEN {<<>>}
    ELSE LET shorter == SeqsUpTo(S, n - 1)
         IN  shorter \cup {Append(q, e) : q \in {r \in shorter : Len(r) = n - 1}, e \in S}

\* a request of n assets cycling over three symbols, 5 percent each
LongAssets(n) == [k \in 1..n |-> [symbol |-> <<65 + (k % 3)>>, weight |-> 5]]

ShortLists == SeqsUpTo(Entries, MaxLen)

LongLists == {LongAssets(MaxAssets), LongAssets(MaxAssets + 1)}

AnalysisTypes == {"correlation", "risk_metrics", "outliers", "performance"}

Objectives == {"max_sharpe", "target_return"}

(***************************************************************************)
(* Price alignment and annualized statistics                               *)
(***************************************************************************)
\* the closes of the points that have both a Close and a Date
RECURSIVE UsablePrices(_)
UsablePrices(data) ==
    IF data = <<>> THEN <<>>
    ELSE IF data[1].Close # 0 /\ data[1].Date # 0
         THEN <<data[1].Close>> \o UsablePrices(Tail(data))
         ELSE UsablePrices(Tail(data))

RECURSIVE UsableDates(_)
UsableDates(data) ==
    IF data = <<>> THEN <<>>
    ELSE IF data[1].Close # 0 /\ data[1].Date # 0
         THEN <<data[1].Date>> \o UsableDates(Tail(data))
         ELSE UsableDates(Tail(data))

\* price_data: the symbols of portfolio_data, in order, that have prices
RECURSIVE PriceData(_)
PriceData(pd) ==
    IF pd = <<>> THEN <<>>
    ELSE IF UsablePrices(pd[1].val.data) # <<>>
         THEN <<[key |-> pd[1].key, val |-> UsablePrices(pd[1].val.data)]>> \o PriceData(Tail(pd))
         ELSE PriceData(Tail(pd))

RECURSIVE MinSeq(_)
MinSeq(s) == IF Len(s) = 1 THEN s[1] ELSE LET m == MinSeq(Tail(s)) IN IF s[1] < m THEN s[1] ELSE m

MinLength(prices) == MinSeq([k \in DOMAIN prices |-> Len(prices[k].val)])

\* prices[:min_length], the oldest observations
FirstN(q, n) == SubSeq(q, 1, n)

\* prices[-min_length:]
LastN(q, n) == SubSeq(q, Len(q) - n + 1, Len(q))

\* df.pct_change().dropna() of one column, in basis points
PctChange(col) == [t \in 1..(Len(col) - 1) |-> ((col[t + 1] - col[t]) * 10000) \div col[t]]

\* df = pd.DataFrame({symbol: prices[-min_length:] for symbol, prices in ...})
Frame(prices) ==
    LET n == MinLength(prices)
    IN  [k \in DOMAIN prices |-> [key |-> prices[k].key, val |-> LastN(prices[k].val, n)]]

Returns(prices) ==
    LET df == Frame(prices)
    IN  [k \in DOMAIN df |-> [key |-> df[k].key, val |-> PctChange(df[k].val)]]

Mean(r) == SumSeq(r) \div Len(r)

\* sample covariance (ddof = 1) of two columns, in 1e-8
Cov(r1, r2) ==
    SumSeq([t \in DOMAIN r1 |-> (r1[t] - Mean(r1)) * (r2[t] - Mean(r2))]) \div (Len(r1) - 1)

\* mean_returns = returns.mean() * 252, cov_matrix = returns.cov() * 252,
\* symbols = list(returns.columns)
Statistics(returns) ==
    LET cols == Keys(returns)
    IN  [symbols |-> cols,
         mean |-> [s \in Range(cols) |-> Mean(Get(returns, s)) * TradingDays],
         cov |-> [s \in Range(cols) |-> [u \in Range(cols) |->
                    (Cov(Get(returns, s), Get(returns, u)) * TradingDays) \div 10000]]]

(***************************************************************************)
(* Request handling: analyze_portfolio and optimize_portfolio              *)
(***************************************************************************)
Request(a, t, m, ob) ==
    [assets |-> a, analysis_types |-> t, optimization_methods |-> m, objective |-> ob,
     target_return |-> 1200, risk_free_rate |-> RiskFree]

\* short requests with every choice of options, long ones with the defaults
Requests ==
    {Request(a, t, m, ob) :
        a \in ShortLists, t \in SUBSET AnalysisTypes, m \in SUBSET MethodSet, ob \in Objectives}
      \cup {Request(a, AnalysisTypes, MethodSet, "max_sharpe") : a \in LongLists}

Start ==
    /\ pc = "validate"
    /\ idx = 1
    /\ portfolio_data = <<>>
    /\ price_data = <<>>
    /\ stats = Absent
    /\ result = Absent
    /\ response = Absent
    /\ solver = [m \in SolverMethods |-> [kind |-> "unsolved"]]
    /\ calls = 0
    /\ runs = <<>>
    /\ fetchlog = [ok |-> {}, failed |-> {}]
    /\ served = 0
    /\ market = Unfetched

\* a request uses the fields of its own endpoint; the others keep their defaults
Init ==
    /\ endpoint \in {"analyze", "optimize"}
    /\ req \in Requests
    /\ endpoint = "analyze" =>
            req.optimization_methods = MethodSet /\ req.objective = "max_sharpe"
    /\ endpoint = "optimize" => req.analysis_types = AnalysisTypes
    /\ Start

Respond(status, detail) ==
    /\ response' = [status |-> status, detail |-> detail]
    /\ pc' = "done"

\* the validation without its upper limit
CountErrorNoMax(assets) ==
    IF Len(assets) < MinAssets THEN "at least 2 assets required" ELSE ""

\* if not req.assets or len(req.assets) < 2; if len(req.assets) > 20
CountError(assets) ==
    IF Len(assets) < MinAssets THEN "at least 2 assets required"
    ELSE IF Len(assets) > MaxAssets THEN "at most 20 assets allowed"
    ELSE ""

\* a check that also rejects a difference of exactly 10
WeightErrorStrict(assets) ==
    IF Abs(SumSeq([k \in DOMAIN assets |-> assets[k].weight]) - 100) >= 10
    THEN "weights must sum to about 100"
    ELSE ""


\* total_weight = sum(weights); abs(total_weight - 100) > 10 (analyze only)
WeightError(assets) ==
    IF Abs(SumSeq([k \in DOMAIN assets |-> assets[k].weight]) - 100) > 10
    THEN "weights must sum to about 100"
    ELSE ""

\* a validation that applies the weight check to both endpoints
ValidateWeightsEverywhere ==
    /\ pc = "validate"
    /\ IF CountError(req.assets) # ""
       THEN Respond(400, CountError(req.assets))
       ELSE IF WeightError(req.assets) # ""
       THEN Respond(400, WeightError(req.assets))
       ELSE /\ pc' = "fetch"
            /\ UNCHANGED response
    /\ UNCHANGED <<market, served, endpoint, req, idx, portfolio_data, price_data, stats, result,
                   solver, calls, runs, fetchlog>>

\* the checks either handler makes before it calls the provider
Validate ==
    /\ pc = "validate"
    /\ IF CountError(req.assets) # ""
       THEN Respond(400, CountError(req.assets))
       ELSE IF endpoint = "analyze" /\ WeightError(req.assets) # ""
       THEN Respond(400, WeightError(req.assets))
       ELSE /\ pc' = "fetch"
            /\ UNCHANGED response
    /\ UNCHANGED <<market, served, endpoint, req, idx, portfolio_data, price_data, stats, result,
                   solver, calls, runs, fetchlog>>

\* a loop body that stores whatever the provider returned
StoredKeepsEmpty(pd, symbol, asset, o) ==
    IF o.kind = "raise" THEN pd
    ELSE DictSet(pd, symbol, [weight |-> asset.weight, data |-> o.data])

\* one pass of "for asset in req.assets": the provider call and what the loop
\* body does with its outcome
Stored(pd, symbol, asset, o) ==
    IF o.kind = "raise" THEN pd
    ELSE IF NoData(o) THEN pd
    ELSE DictSet(pd, symbol, [weight |-> asset.weight, data |-> o.data])

Fetch ==
    /\ pc = "fetch"
    /\ idx <= Len(req.assets)
    /\ \E o \in ProviderOutcomes :
          LET symbol == Upper(req.assets[idx].symbol)
          IN  /\ portfolio_data' = Stored(portfolio_data, symbol, req.assets[idx], o)
              /\ fetchlog' = IF o.kind = "raise" \/ NoData(o)
                             THEN [fetchlog EXCEPT !.failed = @ \cup {symbol}]
                             ELSE [fetchlog EXCEPT !.ok = @ \cup {symbol}]
    /\ calls' = calls + 1
    /\ idx' = idx + 1
    /\ pc' = IF idx + 1 > Len(req.assets) THEN "prepare" ELSE "fetch"
    /\ UNCHANGED <<market, served, endpoint, req, price_data, stats, result, response, solver, runs>>

BaseResult(rq, st) ==
    [success |-> TRUE, objective |-> rq.objective, assets_optimized |-> Len(st.symbols),
     symbols |-> st.symbols, risk_parity |-> Absent, markowitz |-> Absent, hybrid |-> Absent,
     black_litterman |-> Absent, optimal_selection |-> Absent, recommendations |-> Absent]

\* optimize_portfolio from the check of portfolio_data to the base result
PrepareOptimize ==
    /\ pc = "prepare"
    /\ endpoint = "optimize"
    /\ IF Len(portfolio_data) < 2
       THEN /\ Respond(400, "insufficient data")
            /\ UNCHANGED <<price_data, stats, result>>
       ELSE /\ price_data' = PriceData(portfolio_data)
            /\ IF PriceData(portfolio_data) = <<>>
               THEN /\ Respond(500, "min() arg is an empty sequence")
                    /\ UNCHANGED <<stats, result>>
               ELSE LET st == Statistics(Returns(PriceData(portfolio_data)))
                    IN  /\ stats' = st
                        /\ result' = BaseResult(req, st)
                        /\ pc' = "risk_parity"
                        /\ UNCHANGED response
    /\ UNCHANGED <<market, served, endpoint, req, idx, portfolio_data, solver, calls, runs, fetchlog>>

\* the four blocks of optimize_portfolio, each guarded by its method name
RiskParityBlock(res, rq, st, o) ==
    IF "risk_parity" \in rq.optimization_methods
    THEN [res EXCEPT !.risk_parity = optimize_risk_parity(o["risk_parity"], st, rq.risk_free_rate)]
    ELSE res

\* a Markowitz block that gives up once risk parity has failed
MarkowitzBlockAborts(res, rq, st, o) ==
    IF "markowitz" \in rq.optimization_methods /\ ~IsError(res.risk_parity)
    THEN [res EXCEPT !.markowitz =
            optimize_markowitz(o["markowitz"], st, rq.objective, rq.target_return, rq.risk_free_rate)]
    ELSE res

MarkowitzBlock(res, rq, st, o) ==
    IF "markowitz" \in rq.optimization_methods
    THEN [res EXCEPT !.markowitz =
            optimize_markowitz(o["markowitz"], st, rq.objective, rq.target_return, rq.risk_free_rate)]
    ELSE res

\* a hybrid block that falls back on the one set of weights it has
HybridBlockFallback(res, rq, st, o) ==
    IF "hybrid" \in rq.optimization_methods
    THEN LET rp == WeightsOrEmpty(res.risk_parity)
             mv == WeightsOrEmpty(res.markowitz)
             rp_weights == IF rp.num = <<>> THEN mv ELSE rp
             mv_weights == IF mv.num = <<>> THEN rp ELSE mv
         IN  [res EXCEPT !.hybrid = optimize_hybrid(rp_weights, mv_weights, st, rq.risk_free_rate)]
    ELSE res

HybridBlock(res, rq, st, o) ==
    IF "hybrid" \in rq.optimization_methods
    THEN LET rp_weights == WeightsOrEmpty(res.risk_parity)
             mv_weights == WeightsOrEmpty(res.markowitz)
         IN  [res EXCEPT !.hybrid = optimize_hybrid(rp_weights, mv_weights, st, rq.risk_free_rate)]
    ELSE res

\* a Black-Litterman block that starts from the Markowitz weights and gives
\* up without them
BlackLittermanBlockWarmStart(res, rq, st, o) ==
    IF "black_litterman" \in rq.optimization_methods
    THEN [res EXCEPT !.black_litterman =
            IF HasWeights(res.markowitz)
            THEN optimize_black_litterman(o["black_litterman"], st, rq.risk_free_rate)
            ELSE [error |-> <<"black_litterman", "exception">>]]
    ELSE res

BlackLittermanBlock(res, rq, st, o) ==
    IF "black_litterman" \in rq.optimization_methods
    THEN [res EXCEPT !.black_litterman =
            optimize_black_litterman(o["black_litterman"], st, rq.risk_free_rate)]
    ELSE res

Block(m, res, rq, st, o) ==
    CASE m = "risk_parity" -> RiskParityBlock(res, rq, st, o)
      [] m = "markowitz" -> MarkowitzBlock(res, rq, st, o)
      [] m = "hybrid" -> HybridBlock(res, rq, st, o)
      [] m = "black_litterman" -> BlackLittermanBlock(res, rq, st, o)

NextAfter(m) ==
    CASE m = "risk_parity" -> "markowitz"
      [] m = "markowitz" -> "hybrid"
      [] m = "hybrid" -> "black_litterman"
      [] m = "black_litterman" -> "finish"

\* a Markowitz problem that carries the return constraint for every objective
ConstraintsAlwaysWithReturn(objective) == <<"sum", "return">>

\* constraints = [sum(x) - 1 = 0], and with objective "target_return" also
\* sum(mean_returns * x) - target_return = 0
Constraints(objective) ==
    IF objective = "target_return" THEN <<"sum", "return">> ELSE <<"sum">>

\* the objective_function of the branch taken: what the solver minimizes
ObjectiveFunction(objective) ==
    IF objective = "max_sharpe" THEN "-sharpe"
    ELSE IF objective = "min_volatility" THEN "volatility"
    ELSE IF objective = "target_return" THEN "volatility"
    ELSE "-diversification_ratio"

\* a converged solution satisfies the constraints it was given
Satisfies(x, st, constraints, target_return) ==
    "return" \in Range(constraints) =>
        PortfolioReturn(st, WFun(WeightsDict(st.symbols, x)), Scale) = target_return

\* minimize(objective_function, x0, bounds=bounds, constraints=constraints)
\* in optimize_markowitz: the outcome, with the problem that was solved
MarkowitzOutcomes(st, objective, target_return) ==
    {out @@ [minimizes |-> ObjectiveFunction(objective), constraints |-> Constraints(objective)] :
        out \in {o \in SolverOutcomes(Len(st.symbols)) :
                    o.kind = "converged" =>
                        Satisfies(o.x, st, Constraints(objective), target_return)}}

\* the solve that the block of method m makes, if it makes one: minimize()
\* returns when the block runs
Solved(m, rq, st, o) ==
    IF m \in SolverMethods /\ m \in rq.optimization_methods
    THEN {[o EXCEPT ![m] = out] :
            out \in IF m = "markowitz"
                    THEN MarkowitzOutcomes(st, rq.objective, rq.target_return)
                    ELSE SolverOutcomes(Len(st.symbols))}
    ELSE {o}

\* the block at the handler's position runs; runs records the optimizers called
RunBlock ==
    /\ pc \in MethodSet
    /\ solver' \in Solved(pc, req, stats, solver)
    /\ result' = Block(pc, result, req, stats, solver')
    /\ runs' = IF pc \in req.optimization_methods THEN Append(runs, pc) ELSE runs
    /\ pc' = NextAfter(pc)
    /\ UNCHANGED <<market, served, endpoint, req, idx, portfolio_data, price_data, stats, response,
                   calls, fetchlog>>

\* result["optimal_selection"], result["recommendations"], return result
Finished(res, rq) ==
    LET withSel == [res EXCEPT !.optimal_selection = determine_optimal_selection(res)]
    IN  [withSel EXCEPT !.recommendations = generate_optimization_recommendations(withSel, rq)]

Finish ==
    /\ pc = "finish"
    /\ result' = Finished(result, req)
    /\ Respond(200, "")
    /\ UNCHANGED <<market, served, endpoint, req, idx, portfolio_data, price_data, stats, solver,
                   calls, runs, fetchlog>>

\* analyze_portfolio from the check of portfolio_data to the price table
PrepareAnalyze ==
    /\ pc = "prepare"
    /\ endpoint = "analyze"
    /\ IF Len(portfolio_data) < 2
       THEN /\ Respond(400, "insufficient data")
            /\ UNCHANGED <<price_data, result>>
       ELSE /\ price_data' = PriceData(portfolio_data)
            /\ IF PriceData(portfolio_data) = <<>>
               THEN /\ Respond(400, "no price data")
                    /\ UNCHANGED result
               ELSE /\ result' = [success |-> TRUE, assets_analyzed |-> Len(portfolio_data),
                                   sections |-> {}]
                    /\ pc' = "analysis"
                    /\ UNCHANGED response
    /\ UNCHANGED <<market, served, endpoint, req, idx, portfolio_data, stats, solver, calls, runs, fetchlog>>

\* the sections of the analyze response: "performance" is built only when the
\* risk metrics block has defined portfolio_returns
Sections(types) ==
    (IF "correlation" \in types THEN {"correlation_matrix"} ELSE {})
      \cup (IF "risk_metrics" \in types THEN {"risk_metrics"} ELSE {})
      \cup (IF "outliers" \in types THEN {"outliers"} ELSE {})
      \cup (IF "performance" \in types /\ "risk_metrics" \in types THEN {"performance"} ELSE {})

\* the analysis blocks; the risk metrics block calls the provider for SPY
Analyze ==
    /\ pc = "analysis"
    /\ result' = [result EXCEPT !.sections = Sections(req.analysis_types)]
    /\ calls' = IF "risk_metrics" \in req.analysis_types THEN calls + 1 ELSE calls
    /\ Respond(200, "")
    /\ UNCHANGED <<market, served, endpoint, req, idx, portfolio_data, price_data, stats, solver, runs, fetchlog>>

Next ==
    \/ Validate
    \/ Fetch
    \/ PrepareOptimize
    \/ RunBlock
    \/ Finish
    \/ PrepareAnalyze
    \/ Analyze

Spec == Init /\ [][Next]_vars

(***************************************************************************)
(* The result of the four blocks in the handler's order, as a function of  *)
(* what the solves return                                                  *)
(***************************************************************************)
SequentialResult(rq, st, o) ==
    BlackLittermanBlock(
        HybridBlock(
            MarkowitzBlock(
                RiskParityBlock(BaseResult(rq, st), rq, st, o), rq, st, o), rq, st, o), rq, st, o)

(***************************************************************************)
(* optimize_hybrid on its own: the hybrid block applied to any pair of     *)
(* risk parity and Markowitz results, over the same symbols or not         *)
(***************************************************************************)
\* the statistics of a price table with the columns cols
StatsFor(cols) ==
    Statistics(Returns(PriceData(
        [k \in DOMAIN cols |->
            [key |-> cols[k],
             val |-> [weight |-> 50, data |-> IF k % 2 = 1 THEN SeriesLong ELSE SeriesGap]]])))

AssetsFor(cols) == [k \in DOMAIN cols |-> [symbol |-> cols[k], weight |-> 50]]

HybridColumns == {<<<<65>>, <<66>>>>, <<<<66>>, <<65>>>>, <<<<65>>, <<66>>, <<67>>>>, <<<<67>>, <<68>>>>}

Converged(n) == {o \in SolverOutcomes(n) : o.kind = "converged"}

RiskParityInputs ==
    {Absent, [error |-> <<"risk_parity", "failed to converge">>]}
      \cup UNION {{optimize_risk_parity(o, StatsFor(cols), RiskFree) : o \in Converged(Len(cols))} :
                    cols \in HybridColumns}

MarkowitzInputs ==
    {Absent, [error |-> <<"markowitz", "failed to converge">>]}
      \cup UNION {{optimize_markowitz(o, StatsFor(cols), "max_sharpe", 1200, RiskFree) :
                        o \in Converged(Len(cols))} : cols \in HybridColumns}

Present(res) == {m \in MethodSet : ~IsAbsent(res[m])}

InitHybrid ==
    /\ endpoint = "optimize"
    /\ \E cols \in {<<<<65>>, <<66>>>>, <<<<65>>, <<66>>, <<67>>>>} :
       \E rp \in RiskParityInputs, mv \in MarkowitzInputs :
          LET st == StatsFor(cols)
              ms == {"hybrid"} \cup (IF IsAbsent(rp) THEN {} ELSE {"risk_parity"})
                               \cup (IF IsAbsent(mv) THEN {} ELSE {"markowitz"})
              rq == Request(AssetsFor(cols), AnalysisTypes, ms, "max_sharpe")
          IN  /\ req = rq
              /\ stats = st
              /\ result = [BaseResult(rq, st) EXCEPT !.risk_parity = rp, !.markowitz = mv]
    /\ pc = "hybrid"
    /\ idx = 1
    /\ portfolio_data = <<>>
    /\ price_data = <<>>
    /\ response = Absent
    /\ solver = [m \in SolverMethods |-> [kind |-> "unsolved"]]
    /\ calls = 0
    /\ runs = <<>>
    /\ fetchlog = [ok |-> {}, failed |-> {}]
    /\ served = 0
    /\ market = Unfetched

HybridCall ==
    /\ pc = "hybrid"
    /\ RunBlock

NextHybrid == HybridCall

SpecHybrid == InitHybrid /\ [][NextHybrid]_vars

(***************************************************************************)
(* determine_optimal_selection on its own: the end of the handler applied  *)
(* to any combination of method results                                    *)
(***************************************************************************)
MarkerWeights(method) ==
    CASE method = "risk_parity" -> WeightsDict(<<<<65>>, <<66>>>>, <<50, 50>>)
      [] method = "markowitz" -> WeightsDict(<<<<65>>, <<66>>>>, <<19, 80>>)
      [] method = "hybrid" -> WeightsDict(<<<<65>>, <<66>>>>, <<35, 65>>)
      [] method = "black_litterman" -> WeightsDict(<<<<65>>, <<66>>>>, <<20, 80>>)

MethodResults(method) ==
    {Absent, [error |-> <<method, "failed to converge">>]}
      \cup {[weights |-> MarkerWeights(method), expected_return |-> r, volatility |-> v,
              sharpe_ratio |-> sh] : r \in {800, 1000, 1300}, v \in {10, 25, 30}, sh \in {0, 4}}

InitSelect ==
    /\ endpoint = "optimize"
    /\ \E rp \in MethodResults("risk_parity"), mv \in MethodResults("markowitz"),
          hy \in MethodResults("hybrid"), bl \in MethodResults("black_litterman") :
          LET cols == <<<<65>>, <<66>>>>
              st == StatsFor(cols)
              base == BaseResult(Request(AssetsFor(cols), AnalysisTypes, {}, "max_sharpe"), st)
              res == [base EXCEPT !.risk_parity = rp, !.markowitz = mv, !.hybrid = hy,
                                  !.black_litterman = bl]
          IN  /\ req = Request(AssetsFor(cols), AnalysisTypes, Present(res), "max_sharpe")
              /\ stats = st
              /\ result = res
    /\ pc = "finish"
    /\ idx = 1
    /\ portfolio_data = <<>>
    /\ price_data = <<>>
    /\ response = Absent
    /\ solver = [m \in SolverMethods |-> [kind |-> "unsolved"]]
    /\ calls = 0
    /\ runs = <<>>
    /\ fetchlog = [ok |-> {}, failed |-> {}]
    /\ served = 0
    /\ market = Unfetched

NextSelect == Finish

SpecSelect == InitSelect /\ [][NextSelect]_vars

(***************************************************************************)
(* The optimizer blocks on their own: optimize_portfolio from the base     *)
(* result on, for the statistics of a two and of a three column table and  *)
(* every set of requested methods                                          *)
(***************************************************************************)
BlocksStart ==
    /\ endpoint = "optimize"
    /\ \E cols \in {<<<<65>>, <<66>>>>, <<<<65>>, <<66>>, <<67>>>>} :
       \E ms \in SUBSET MethodSet, ob \in Objectives :
          LET st == StatsFor(cols)
              rq == Request(AssetsFor(cols), AnalysisTypes, ms, ob)
          IN  /\ req = rq
              /\ stats = st
              /\ result = BaseResult(rq, st)
    /\ idx = 1
    /\ portfolio_data = <<>>
    /\ price_data = <<>>
    /\ response = Absent
    /\ solver = [m \in SolverMethods |-> [kind |-> "unsolved"]]
    /\ calls = 0
    /\ runs = <<>>
    /\ fetchlog = [ok |-> {}, failed |-> {}]
    /\ served = 0
    /\ market = Unfetched

InitBlocks ==
    /\ BlocksStart
    /\ pc = "risk_parity"

NextBlocks ==
    \/ RunBlock
    \/ Finish

SpecBlocks == InitBlocks /\ [][NextBlocks]_vars

(***************************************************************************)
(* The four blocks run in any order over the same statistics               *)
(***************************************************************************)
InitReorder ==
    /\ BlocksStart
    /\ pc = "reorder"

ReorderBlock ==
    /\ pc = "reorder"
    /\ \E m \in req.optimization_methods \ Range(runs) :
          /\ solver' \in Solved(m, req, stats, solver)
          /\ result' = Block(m, result, req, stats, solver')
          /\ runs' = Append(runs, m)
    /\ UNCHANGED <<market, served, endpoint, req, pc, idx, portfolio_data, price_data, stats, response,
                   calls, fetchlog>>

ReorderDone ==
    /\ pc = "reorder"
    /\ Range(runs) = req.optimization_methods
    /\ pc' = "finish"
    /\ UNCHANGED <<market, served, endpoint, req, idx, portfolio_data, price_data, stats, result, response,
                   solver, calls, runs, fetchlog>>

NextReorder ==
    \/ ReorderBlock
    \/ ReorderDone
    \/ Finish

SpecReorder == InitReorder /\ [][NextReorder]_vars

(***************************************************************************)
(* Intake alone: validation and retrieval of requests whose weights sum to *)
(* values around the limits of the weight check, 90 and 110.               *)
(***************************************************************************)
WeightEntries ==
    {[symbol |-> <<65>>, weight |-> w] : w \in {39, 40, 50}}
      \cup {[symbol |-> <<66>>, weight |-> w] : w \in {50, 60, 61}}

IntakeRequests ==
    {Request(a, AnalysisTypes, MethodSet, "max_sharpe") : a \in SeqsUpTo(WeightEntries, MaxLen)}

InitIntake ==
    /\ endpoint \in {"analyze", "optimize"}
    /\ req \in IntakeRequests
    /\ Start

NextIntake == Validate \/ Fetch

SpecIntake == InitIntake /\ [][NextIntake]_vars

(***************************************************************************)
(* detect_portfolio_outliers, and the outliers block of analyze_portfolio  *)
(* alone.  A Python value that is compared across types carries its type:  *)
(* the provider's dates are strings, positions in a loop are ints.         *)
(***************************************************************************)
PyStr(v) == [type |-> "str", val |-> v]

PyInt(v) == [type |-> "int", val |-> v]

\* dates: the dates of the first symbol that has prices
RECURSIVE FirstDates(_)
FirstDates(pd) ==
    IF pd = <<>> THEN <<>>
    ELSE IF UsablePrices(pd[1].val.data) # <<>> THEN UsableDates(pd[1].val.data)
    ELSE FirstDates(Tail(pd))

\* df.index = dates[-min_length:] if dates else range(min_length)
FrameIndex(dates, min_length) ==
    IF dates # <<>>
    THEN [k \in 1..min_length |-> PyStr(LastN(dates, min_length)[k])]
    ELSE [k \in 1..min_length |-> PyInt(k - 1)]

RECURSIVE InsertAscending(_, _)
InsertAscending(sorted, x) ==
    IF sorted = <<>> THEN <<x>>
    ELSE IF sorted[1] <= x THEN <<sorted[1]>> \o InsertAscending(Tail(sorted), x)
    ELSE <<x>> \o sorted

RECURSIVE Sorted(_)
Sorted(r) == IF r = <<>> THEN <<>> ELSE InsertAscending(Sorted(Tail(r)), r[1])

\* 4 * Series.quantile(quarters / 4), by linear interpolation
Quantile4(r, quarters) ==
    LET sorted == Sorted(r)
        pos == quarters * (Len(r) - 1)
        lo == pos \div 4
        frac == pos % 4
    IN  sorted[lo + 1] * (4 - frac) + (IF frac = 0 THEN 0 ELSE sorted[lo + 2] * frac)

\* z_scores > 3 with the sample standard deviation, squared and cleared of
\* its divisions; a zero deviation gives NaN, which is not > 3
ZOutlier(r, t) ==
    LET n == Len(r)
        dev(u) == n * r[u] - SumSeq(r)
    IN  (n - 1) * dev(t) * dev(t) > 9 * SumSeq([u \in DOMAIN r |-> dev(u) * dev(u)])

\* symbol_returns < Q1 - 1.5 * IQR or symbol_returns > Q3 + 1.5 * IQR
IQROutlier(r, t) ==
    LET q1 == Quantile4(r, 1)
        q3 == Quantile4(r, 3)
    IN  \/ 8 * r[t] < 2 * q1 - 3 * (q3 - q1)
        \/ 8 * r[t] > 2 * q3 + 3 * (q3 - q1)

\* the subsequence of points whose position satisfies keep
RECURSIVE SelectPoints(_, _, _, _)
SelectPoints(points, outlier_indices, wanted, i) ==
    IF points = <<>> THEN <<>>
    ELSE IF (PyInt(i) \in outlier_indices) = wanted
         THEN <<points[1]>> \o SelectPoints(Tail(points), outlier_indices, wanted, i + 1)
         ELSE SelectPoints(Tail(points), outlier_indices, wanted, i + 1)

\* one pass of "for symbol in returns_df.columns"
SymbolOutliers(index, r) ==
    LET labels == LastN(index, Len(r))
        z_outliers == {labels[t] : t \in {u \in DOMAIN r : ZOutlier(r, u)}}
        iqr_outliers == {labels[t] : t \in {u \in DOMAIN r : IQROutlier(r, u)}}
        outlier_indices == z_outliers \cup iqr_outliers
        points == [t \in DOMAIN r |-> [date |-> labels[t].val, return |-> r[t]]]
    IN  [outliers |-> SelectPoints(points, outlier_indices, TRUE, 0),
         normal |-> SelectPoints(points, outlier_indices, FALSE, 0),
         zscore |-> Cardinality(z_outliers),
         iqr |-> Cardinality(iqr_outliers)]

detect_portfolio_outliers(index, returns_df) ==
    LET data == [k \in DOMAIN returns_df |->
                    [key |-> returns_df[k].key, val |-> SymbolOutliers(index, returns_df[k].val)]]
        total_points == SumSeq([k \in DOMAIN data |->
                                    Len(data[k].val.outliers) + Len(data[k].val.normal)])
        total_outliers == SumSeq([k \in DOMAIN data |-> Len(data[k].val.outliers)])
    IN  [total_outliers |-> total_outliers,
         outliers_percentage |-> IF total_points > 0
                                 THEN (total_outliers * 100) \div total_points ELSE 0,
         data |-> data]

\* closes in tenths of a cent: quiet series, series with one jump of 1 percent
\* early, late or in the middle, and series of twelve closes
OutlierCloses ==
    {<<1000, 1000, 1000, 1000, 1010>>,
     <<1000, 1010, 1010, 1010, 1010>>,
     <<1000, 1001, 1000, 1001, 1000>>,
     <<1000, 1000, 990, 990, 990>>,
     <<1000, 1000, 1000, 1000>>,
     <<1000, 1000, 1000, 1000, 1000, 1000, 1000, 1000, 1000, 1000, 1000, 1010>>,
     <<1000, 1000, 1000, 1000, 1000, 1010, 1010, 1010, 1010, 1010, 1010, 1010>>,
     <<1000, 1002, 1000, 1002, 1000, 1002, 1000, 1002, 1000, 1002, 1000, 1002>>}

OutlierFrames ==
    {<<[key |-> <<65>>, val |-> [weight |-> 50, data |-> Points(a, 1)]],
       [key |-> <<66>>, val |-> [weight |-> 50, data |-> Points(b, 1)]]>> :
        a \in OutlierCloses, b \in OutlierCloses}

InitOutliers ==
    /\ endpoint = "analyze"
    /\ req = Request(<<[symbol |-> <<65>>, weight |-> 50], [symbol |-> <<66>>, weight |-> 50]>>,
                     {"outliers"}, MethodSet, "max_sharpe")
    /\ pc = "outliers"
    /\ idx = 3
    /\ portfolio_data \in OutlierFrames
    /\ price_data = PriceData(portfolio_data)
    /\ stats = Absent
    /\ result = [success |-> TRUE, assets_analyzed |-> Len(portfolio_data), sections |-> {}]
    /\ response = Absent
    /\ solver = [m \in SolverMethods |-> [kind |-> "unsolved"]]
    /\ calls = 2
    /\ runs = <<>>
    /\ fetchlog = [ok |-> {<<65>>, <<66>>}, failed |-> {}]
    /\ served = 0
    /\ market = Unfetched

\* if "outliers" in req.analysis_types: result["outliers"] = ...; return result
OutliersBlock ==
    /\ pc = "outliers"
    /\ "outliers" \in req.analysis_types
    /\ result' = [success |-> result.success,
                  assets_analyzed |-> result.assets_analyzed,
                  sections |-> Sections(req.analysis_types),
                  outliers |-> detect_portfolio_outliers(
                                  FrameIndex(FirstDates(portfolio_data), MinLength(price_data)),
                                  Returns(price_data))]
    /\ Respond(200, "")
    /\ UNCHANGED <<market, served, endpoint, req, idx, portfolio_data, price_data, stats, solver, calls,
                   runs, fetchlog>>

NextOutliers == OutliersBlock

SpecOutliers == InitOutliers /\ [][NextOutliers]_vars

(***************************************************************************)
(* The recommendations alone: results whose volatilities and Sharpe ratios *)
(* lie around the advisor's thresholds, for requests of 4, 5, 15 and 16    *)
(* assets.                                                                 *)
(***************************************************************************)
AdviceResults(method) ==
    {Absent, [error |-> <<method, "failed to converge">>]}
      \cup {[weights |-> MarkerWeights(method), expected_return |-> 1000, volatility |-> v,
              sharpe_ratio |-> sh] : v \in {9, 10, 11, 12, 13, 20, 21, 24, 25, 26}, sh \in {49, 50, 51, 150, 151}}

AdviceSizes == {4, 5, 15, 16}

InitAdvise ==
    /\ endpoint = "optimize"
    /\ \E rp \in AdviceResults("risk_parity"), mv \in AdviceResults("markowitz"),
          n \in AdviceSizes :
          LET st == StatsFor(<<<<65>>, <<66>>, <<67>>>>)
              base == BaseResult(Request(LongAssets(n), AnalysisTypes, {}, "max_sharpe"), st)
              res == [base EXCEPT !.risk_parity = rp, !.markowitz = mv]
          IN  /\ req = Request(LongAssets(n), AnalysisTypes, Present(res), "max_sharpe")
              /\ stats = st
              /\ result = res
    /\ pc = "finish"
    /\ idx = 1
    /\ portfolio_data = <<>>
    /\ price_data = <<>>
    /\ response = Absent
    /\ solver = [m \in SolverMethods |-> [kind |-> "unsolved"]]
    /\ calls = 0
    /\ runs = <<>>
    /\ fetchlog = [ok |-> {}, failed |-> {}]
    /\ served = 0
    /\ market = Unfetched

NextAdvise == Finish

SpecAdvise == InitAdvise /\ [][NextAdvise]_vars

(***************************************************************************)
(* One process answering requests one after another: every handler call    *)
(* starts from its own locals, and the module holds no mutable state       *)
(***************************************************************************)
\* a dictionary that would outlive the call that filled it
KeptPortfolioData(previous) == previous

\* portfolio_data = {} at the top of the loop of either handler
NewPortfolioData(previous) == <<>>

SessionLists ==
    {<<[symbol |-> <<65>>, weight |-> 50], [symbol |-> <<66>>, weight |-> 50]>>,
     <<[symbol |-> <<65>>, weight |-> 50], [symbol |-> <<97>>, weight |-> 50]>>,
     <<[symbol |-> <<66>>, weight |-> 50], [symbol |-> <<67>>, weight |-> 70]>>,
     <<[symbol |-> <<67>>, weight |-> 70]>>}

SessionRequests == {Request(a, AnalysisTypes, MethodSet, "max_sharpe") : a \in SessionLists}

InitSession ==
    /\ endpoint \in {"analyze", "optimize"}
    /\ req \in SessionRequests
    /\ Start

\* the next call of a handler: new arguments, new locals
NextRequest ==
    /\ pc = "done"
    /\ served < MaxServed
    /\ served' = served + 1
    /\ market' = Unfetched
    /\ endpoint' \in {"analyze", "optimize"}
    /\ req' \in SessionRequests
    /\ pc' = "validate"
    /\ idx' = 1
    /\ portfolio_data' = NewPortfolioData(portfolio_data)
    /\ price_data' = <<>>
    /\ stats' = Absent
    /\ result' = Absent
    /\ response' = Absent
    /\ solver' = [m \in SolverMethods |-> [kind |-> "unsolved"]]
    /\ calls' = 0
    /\ runs' = <<>>
    /\ fetchlog' = [ok |-> {}, failed |-> {}]

NextSession ==
    \/ Validate
    \/ Fetch
    \/ PrepareOptimize
    \/ RunBlock
    \/ Finish
    \/ PrepareAnalyze
    \/ Analyze
    \/ NextRequest

SpecSession == InitSession /\ [][NextSession]_vars

(***************************************************************************)
(* optimize_portfolio over requests whose weights take any value: the      *)
(* usual ones, zero, a negative one, and totals far from 100               *)
(***************************************************************************)
WeightValues == {0, 50, 70, -20}

WeightedEntries == {[symbol |-> <<c>>, weight |-> w] : c \in {65, 66}, w \in WeightValues}

WeightedRequests ==
    {Request(a, AnalysisTypes, MethodSet, "max_sharpe") :
        a \in {<<e>> : e \in WeightedEntries} \cup {<<e, f>> : e, f \in WeightedEntries}}

InitWeights ==
    /\ endpoint = "optimize"
    /\ req \in WeightedRequests
    /\ Start

NextWeights ==
    \/ Validate
    \/ Fetch
    \/ PrepareOptimize
    \/ RunBlock
    \/ Finish

SpecWeights == InitWeights /\ [][NextWeights]_vars

(***************************************************************************)
(* The risk metrics block of analyze_portfolio: returns in basis points,   *)
(* annual volatility and return in basis points, ratios in hundredths.     *)
(* None is Python's None and NaN the float nan; a number n is Number(n).   *)
(* The values of the performance section are not modelled.                 *)
(***************************************************************************)
None == [none |-> TRUE]

NaN == [nan |-> TRUE]

Number(x) == [value |-> x]

\* np.sqrt by bisection, rounded down to the unit, for n below 46340 squared
RECURSIVE RootBetween(_, _, _)
RootBetween(n, lo, hi) ==
    IF hi - lo <= 1 THEN lo
    ELSE LET mid == (lo + hi) \div 2
         IN  IF mid * mid <= n THEN RootBetween(n, mid, hi) ELSE RootBetween(n, lo, mid)

Root(n) == IF n <= 0 THEN 0 ELSE RootBetween(n, 0, 46340)

\* weights = np.array([portfolio_data[symbol]["weight"] for symbol in df.columns])
ColumnWeights(pd, prices) == [k \in DOMAIN prices |-> Get(pd, prices[k].key).weight]

\* weights = weights / weights.sum(): numpy divides 0 by 0 to nan and goes on
\* (weights are not negative in the modelled requests)
NormalizedWeights(weights) ==
    IF SumSeq(weights) = 0
    THEN [k \in DOMAIN weights |-> NaN]
    ELSE [k \in DOMAIN weights |-> [num |-> weights[k], den |-> SumSeq(weights)]]

\* portfolio_returns = (returns * weights).sum(axis=1): the sum of a row skips
\* nan, so a row of nan adds up to 0
PortfolioReturns(returns, weights) ==
    LET w == NormalizedWeights(weights)
    IN  [t \in DOMAIN returns[1].val |->
            IF \E k \in DOMAIN w : w[k] = NaN THEN 0
            ELSE SumSeq([k \in DOMAIN returns |-> w[k].num * returns[k].val[t]]) \div w[1].den]

\* n * (n - 1) times the sample covariance (ddof = 1) of two series
CovN(a, b) == Len(a) * SumSeq([t \in DOMAIN a |-> a[t] * b[t]]) - SumSeq(a) * SumSeq(b)

\* Series.std() * np.sqrt(252)
AnnualVolatility(r) == Root((CovN(r, r) * TradingDays) \div (Len(r) * (Len(r) - 1)))

\* Series.mean() * 252
AnnualReturn(r) == (SumSeq(r) * TradingDays) \div Len(r)

\* np.percentile(portfolio_returns, 5), by linear interpolation
Percentile5(r) ==
    LET sorted == Sorted(r)
        pos == 5 * (Len(r) - 1)
        lo == pos \div 100
        frac == pos % 100
    IN  IF frac = 0 THEN sorted[lo + 1]
        ELSE sorted[lo + 1] + (frac * (sorted[lo + 2] - sorted[lo + 1])) \div 100

\* portfolio_returns[portfolio_returns <= var_95].mean()
RECURSIVE AtMost(_, _)
AtMost(r, bound) ==
    IF r = <<>> THEN <<>>
    ELSE IF r[1] <= bound THEN <<r[1]>> \o AtMost(Tail(r), bound) ELSE AtMost(Tail(r), bound)

ConditionalVaR(r) == LET tail == AtMost(r, Percentile5(r)) IN SumSeq(tail) \div Len(tail)

\* (1 + portfolio_returns).cumprod(), the value of 1 invested, times 10000
RECURSIVE CumProd(_, _)
CumProd(r, value) ==
    IF r = <<>> THEN <<>>
    ELSE LET next == (value * (10000 + r[1])) \div 10000
         IN  <<next>> \o CumProd(Tail(r), next)

CumulativeReturns(r) == CumProd(r, 10000)

\* cumulative_returns.expanding().max()
RollingMax(c) == [t \in DOMAIN c |-> MaxSeq(SubSeq(c, 1, t))]

\* a drawdown measured from the capital invested instead of the running peak
MaxDrawdownFromStart(portfolio_returns) ==
    LET cumulative_returns == CumulativeReturns(portfolio_returns)
    IN  MinSeq([t \in DOMAIN cumulative_returns |-> cumulative_returns[t] - 10000])

\* drawdown = (cumulative_returns / rolling_max) - 1; max_drawdown = drawdown.min()
MaxDrawdown(portfolio_returns) ==
    LET cumulative_returns == CumulativeReturns(portfolio_returns)
        rolling_max == RollingMax(cumulative_returns)
    IN  MinSeq([t \in DOMAIN cumulative_returns |->
                    (cumulative_returns[t] * 10000) \div rolling_max[t] - 10000])

\* [float(point["Close"]) for point in spy_data["data"] if point.get("Close")]
RECURSIVE BenchmarkCloses(_)
BenchmarkCloses(data) ==
    IF data = <<>> THEN <<>>
    ELSE IF data[1].Close # 0 THEN <<data[1].Close>> \o BenchmarkCloses(Tail(data))
         ELSE BenchmarkCloses(Tail(data))

\* q[-n:], which is all of q when q has fewer than n elements
Newest(q, n) == IF Len(q) <= n THEN q ELSE LastN(q, n)

\* spy_returns = pd.Series(spy_prices).pct_change().dropna()
BenchmarkReturns(o, min_length) ==
    IF o.kind # "ok" THEN <<>> ELSE PctChange(Newest(BenchmarkCloses(o.data), min_length))

\* np.corrcoef(portfolio_returns, spy_returns)[0, 1] ** 2: nan when one of
\* the two series does not vary
RSquared(p, s) ==
    IF CovN(p, p) = 0 \/ CovN(s, s) = 0 THEN NaN
    ELSE LET corr == (CovN(p, s) * 1000) \div (Root(CovN(p, p)) * Root(CovN(s, s)))
         IN  Number((corr * corr) \div 10000)

\* a benchmark block that cuts the portfolio's returns to the benchmark's
BenchmarkCutToFit(o, min_length, portfolio_returns) ==
    LET spy_returns == BenchmarkReturns(o, min_length)
        n == IF Len(spy_returns) < Len(portfolio_returns)
             THEN Len(spy_returns) ELSE Len(portfolio_returns)
        p == Newest(portfolio_returns, n)
        s == Newest(spy_returns, n)
    IN  IF o.kind # "ok" \/ n < 2
        THEN [portfolio_beta |-> None, r_squared |-> None]
        ELSE [portfolio_beta |-> IF CovN(s, s) > 0
                                 THEN Number((CovN(p, s) * 100) \div CovN(s, s)) ELSE None,
              r_squared |-> RSquared(p, s)]

\* the try block around the benchmark: the provider raising, no data, a
\* series shorter than the portfolio's, or one of its length
Benchmark(o, min_length, portfolio_returns) ==
    IF o.kind # "ok"
    THEN [portfolio_beta |-> None, r_squared |-> None]
    ELSE LET spy_returns == BenchmarkReturns(o, min_length)
         IN  IF Len(spy_returns) >= Len(portfolio_returns)
             THEN LET s == Newest(spy_returns, Len(portfolio_returns))
                      covariance == CovN(portfolio_returns, s)
                      market_variance == CovN(s, s)
                  IN  [portfolio_beta |-> IF market_variance > 0
                                          THEN Number((covariance * 100) \div market_variance)
                                          ELSE None,
                       r_squared |-> RSquared(portfolio_returns, s)]
             ELSE [portfolio_beta |-> None, r_squared |-> None]

\* result["risk_metrics"]
RiskMetrics(pd, prices, o) ==
    LET returns == Returns(prices)
        weights == ColumnWeights(pd, prices)
        portfolio_returns == PortfolioReturns(returns, weights)
        portfolio_volatility == AnnualVolatility(portfolio_returns)
        portfolio_return == AnnualReturn(portfolio_returns)
        individual_volatility == [k \in DOMAIN returns |-> AnnualVolatility(returns[k].val)]
        weighted_volatilities ==
            SumSeq([k \in DOMAIN returns |-> weights[k] * individual_volatility[k]])
        benchmark == Benchmark(o, MinLength(prices), portfolio_returns)
    IN  [portfolio_volatility |-> portfolio_volatility,
         portfolio_return |-> portfolio_return,
         var_95 |-> Percentile5(portfolio_returns),
         cvar_95 |-> ConditionalVaR(portfolio_returns),
         max_drawdown |-> MaxDrawdown(portfolio_returns),
         individual_volatility |-> individual_volatility,
         portfolio_beta |-> benchmark.portfolio_beta,
         r_squared |-> benchmark.r_squared,
         diversification_ratio |->
            IF portfolio_volatility > 0
            THEN (weighted_volatilities * 100) \div (SumSeq(weights) * portfolio_volatility)
            ELSE 0,
         sharpe_ratio |-> IF portfolio_volatility > 0
                          THEN (portfolio_return * 100) \div portfolio_volatility ELSE 0]

\* three-asset requests of which the third symbol could not be fetched
RiskWeights == {<<50, 50, 0>>, <<20, 80, 0>>, <<0, 100, 0>>, <<0, 0, 100>>}

RiskRequests ==
    {Request([k \in 1..3 |-> [symbol |-> <<64 + k>>, weight |-> w[k]]], t, MethodSet,
             "max_sharpe") :
        w \in RiskWeights, t \in {{"risk_metrics"}, {"risk_metrics", "performance"}}}

RiskCloses ==
    {<<1000, 1000, 1000>>,
     <<10000, 10100, 10201>>,
     <<1000, 1010, 1000, 1020>>,
     <<1000, 990, 980, 985>>,
     <<1000, 1010, 1030, 1040>>}

BenchmarkOutcomes ==
    {[kind |-> "raise"], [kind |-> "ok", data |-> <<>>]}
      \cup {[kind |-> "ok", data |-> Points(c, 1)] :
              c \in {<<4000, 4010>>, <<4000, 4040, 4000, 4020>>, <<4000, 4000, 4000, 4000>>,
                     <<4000, 0, 4040, 4000>>}}

InitRisk ==
    /\ endpoint = "analyze"
    /\ req \in RiskRequests
    /\ pc = "risk"
    /\ idx = 4
    /\ \E a \in RiskCloses, b \in RiskCloses :
          portfolio_data =
              <<[key |-> <<65>>, val |-> [weight |-> req.assets[1].weight, data |-> Points(a, 1)]],
                [key |-> <<66>>, val |-> [weight |-> req.assets[2].weight, data |-> Points(b, 1)]]>>
    /\ price_data = PriceData(portfolio_data)
    /\ stats = Absent
    /\ result = [success |-> TRUE, assets_analyzed |-> Len(portfolio_data), sections |-> {}]
    /\ response = Absent
    /\ solver = [m \in SolverMethods |-> [kind |-> "unsolved"]]
    /\ calls = 3
    /\ runs = <<>>
    /\ fetchlog = [ok |-> {<<65>>, <<66>>}, failed |-> {<<67>>}]
    /\ served = 0
    /\ market = Unfetched

\* if "risk_metrics" in req.analysis_types: ... result["risk_metrics"] = {...},
\* then the remaining sections and return result
RiskBlock ==
    /\ pc = "risk"
    /\ "risk_metrics" \in req.analysis_types
    /\ \E o \in BenchmarkOutcomes :
          /\ market' = o
          /\ result' = [success |-> result.success,
                        assets_analyzed |-> result.assets_analyzed,
                        sections |-> Sections(req.analysis_types),
                        risk_metrics |-> RiskMetrics(portfolio_data, price_data, o)]
    /\ calls' = calls + 1
    /\ Respond(200, "")
    /\ UNCHANGED <<served, endpoint, req, idx, portfolio_data, price_data, stats, solver,
                   runs, fetchlog>>

NextRisk == RiskBlock

SpecRisk == InitRisk /\ [][NextRisk]_vars

(***************************************************************************)
(* optimize_markowitz under every objective string: the three it names,    *)
(* max_diversification, and one it does not know                           *)
(***************************************************************************)
ObjectiveStrings ==
    {"max_sharpe", "min_volatility", "target_return", "max_diversification", "sortino"}

\* the returns some candidate solution attains, and one none attains
TargetReturns(st) ==
    {1200} \cup {PortfolioReturn(st, WFun(WeightsDict(st.symbols, x)), Scale) :
                    x \in {p \in Patterns : Len(p) = Len(st.symbols) /\ Feasible(p)}}

InitMarkowitz ==
    /\ endpoint = "optimize"
    /\ \E cols \in {<<<<65>>, <<66>>>>, <<<<65>>, <<66>>, <<67>>>>} :
       \E ms \in SUBSET {"hybrid", "black_litterman"}, ob \in ObjectiveStrings :
       \E t \in TargetReturns(StatsFor(cols)) :
          LET st == StatsFor(cols)
              rq == [Request(AssetsFor(cols), AnalysisTypes, ms \cup {"markowitz"}, ob)
                        EXCEPT !.target_return = t]
          IN  /\ req = rq
              /\ stats = st
              /\ result = BaseResult(rq, st)
    /\ pc = "markowitz"
    /\ idx = 1
    /\ portfolio_data = <<>>
    /\ price_data = <<>>
    /\ response = Absent
    /\ solver = [m \in SolverMethods |-> [kind |-> "unsolved"]]
    /\ calls = 0
    /\ runs = <<>>
    /\ fetchlog = [ok |-> {}, failed |-> {}]
    /\ served = 0
    /\ market = Unfetched

NextMarkowitz ==
    \/ RunBlock
    \/ Finish

SpecMarkowitz == InitMarkowitz /\ [][NextMarkowitz]_vars

(***************************************************************************)
(* Claims                                                                  *)
(***************************************************************************)
AfterHybrid == pc = "black_litterman" /\ "hybrid" \in req.optimization_methods

NoCommonSymbol(res) ==
    WKeys(WeightsOrEmpty(res.risk_parity)) \cap WKeys(WeightsOrEmpty(res.markowitz)) = {}

\* C1: once the hybrid block has run for a request that asks for hybrid, if
\* the risk parity result or the Markowitz result carries no weights (the
\* method was not requested, or it ended in an error), or the two weight maps
\* share no symbol, the hybrid result is an error and carries no weights.
C1_HybridNeedsBoth ==
    AfterHybrid /\
      (~HasWeights(result.risk_parity) \/ ~HasWeights(result.markowitz) \/ NoCommonSymbol(result))
        => IsError(result.hybrid) /\ ~HasWeights(result.hybrid)

\* hybrid was asked for with risk parity weights and a failed Markowitz
C1_Witness ==
    /\ AfterHybrid
    /\ HasWeights(result.risk_parity)
    /\ IsError(result.markowitz)
    /\ IsError(result.hybrid)

AllBlocksRun == endpoint = "optimize" /\ pc = "finish"

\* the results of this request had the solve of method m returned alt
Counterfactual(m, alt) == SequentialResult(req, stats, [solver EXCEPT ![m] = alt])

OutcomeUnchanged(m, n) ==
    \A alt \in SolverOutcomes(Len(stats.symbols)) :
        HasWeights(Counterfactual(m, alt)[n]) = HasWeights(result[n])

\* C2 as stated: for every two distinct requested methods M and N, whether N
\* yields weights or an error does not depend on how the solve of M ended.
C2_AsStated ==
    AllBlocksRun =>
        \A m \in req.optimization_methods \cap SolverMethods :
            \A n \in req.optimization_methods \ {m} : OutcomeUnchanged(m, n)

\* C2 amended: whether a solver-backed method N (risk_parity, markowitz,
\* black_litterman) yields weights or an error depends on its own solve alone
\* and not on how the solve of any other method M ended; hybrid yields weights
\* exactly when risk_parity and markowitz both did; every requested method
\* that yields no weights reports an error of its own in its own result.
C2_FailuresAreIsolated ==
    AllBlocksRun =>
        /\ \A m \in req.optimization_methods \cap SolverMethods :
              \A n \in (req.optimization_methods \cap SolverMethods) \ {m} : OutcomeUnchanged(m, n)
        /\ \A n \in req.optimization_methods \cap SolverMethods :
              HasWeights(result[n]) <=> solver[n].kind = "converged"
        /\ "hybrid" \in req.optimization_methods =>
              (HasWeights(result.hybrid) <=>
                  HasWeights(result.risk_parity) /\ HasWeights(result.markowitz))
        /\ \A n \in req.optimization_methods :
              IF HasWeights(result[n]) THEN ~IsError(result[n])
              ELSE IsError(result[n]) /\ result[n].error[1] = n

\* risk parity failed, Markowitz and Black-Litterman were solved all the same
C2_Witness ==
    /\ AllBlocksRun
    /\ req.optimization_methods = MethodSet
    /\ IsError(result.risk_parity)
    /\ HasWeights(result.markowitz)
    /\ IsError(result.hybrid)
    /\ HasWeights(result.black_litterman)

\* position of method m in the order the blocks ran (0: it did not run)
Position(m) == IF m \in Range(runs) THEN CHOOSE k \in DOMAIN runs : runs[k] = m ELSE 0

HybridRanLast ==
    \A m \in {"risk_parity", "markowitz"} \cap req.optimization_methods :
        Position(m) < Position("hybrid")

\* C3 as stated: in whatever order the requested optimizers run, every method
\* ends with the result that the handler's own order gives it.
C3_AsStated ==
    pc = "finish" => \A m \in MethodSet : result[m] = SequentialResult(req, stats, solver)[m]

\* C3 amended: risk_parity, markowitz and black_litterman end with the result
\* of the handler's own order in whatever order the blocks run, and so does
\* hybrid provided it runs after the requested ones of risk_parity and
\* markowitz, whose weights it reads from the results.
C3_OrderFreeButHybrid ==
    pc = "finish" =>
        /\ \A m \in SolverMethods : result[m] = SequentialResult(req, stats, solver)[m]
        /\ HybridRanLast => result.hybrid = SequentialResult(req, stats, solver).hybrid

\* Black-Litterman ran first and hybrid last, and all four gave weights
C3_Witness ==
    /\ pc = "finish"
    /\ runs = <<"black_litterman", "markowitz", "risk_parity", "hybrid">>
    /\ \A m \in MethodSet : HasWeights(result[m])

OptimizeResponded == endpoint = "optimize" /\ pc = "done" /\ ~IsAbsent(result)

\* the requested methods that converged: in the results, without an error
ConvergedMethods == {m \in MethodSet : ~IsAbsent(result[m]) /\ ~IsError(result[m])}

\* C4 as stated: when every requested method ended in an error, the optimize
\* request fails; it does not return a response marked successful.
C4_AsStated ==
    OptimizeResponded /\ ConvergedMethods = {}
        => response.status # 200 /\ result.success # TRUE

\* C5: when at least one method converged, the selection names a converged
\* method whose composite score is at least that of every converged method,
\* total_score is that score, and optimal_weights, expected_return and
\* volatility are those of the named method.
C5_BestHasMaxScore ==
    OptimizeResponded /\ ConvergedMethods # {} =>
        LET sel == result.optimal_selection
        IN  /\ ~IsError(sel)
            /\ \E m \in ConvergedMethods :
                  /\ sel.best_method = DisplayName(m)
                  /\ \A n \in ConvergedMethods :
                        TotalScore(m, result[m]) >= TotalScore(n, result[n])
                  /\ sel.total_score = TotalScore(m, result[m])
                  /\ sel.optimal_weights = result[m].weights
                  /\ sel.expected_return = result[m].expected_return
                  /\ sel.volatility = result[m].volatility

\* all four converged and the last one in the fixed order wins
C5_Witness ==
    /\ OptimizeResponded
    /\ ConvergedMethods = MethodSet
    /\ result.optimal_selection.best_method = "Black Litterman"
    /\ \A n \in MethodSet \ {"black_litterman"} :
          TotalScore(n, result[n]) < result.optimal_selection.total_score

\* C6: method_comparison holds exactly one entry, with its score, for each
\* requested method that ended without an error, no entry for a method that
\* failed or was not requested, and its scores never increase down the list.
C6_ComparisonIsConvergedRanked ==
    OptimizeResponded /\ ~IsError(result.optimal_selection) =>
        LET mc == result.optimal_selection.method_comparison
        IN  /\ Len(mc) = Cardinality(ConvergedMethods)
            /\ Range(mc) = {[name |-> DisplayName(m), score |-> TotalScore(m, result[m])] :
                                m \in ConvergedMethods}
            /\ {mc[k].name : k \in DOMAIN mc} = {DisplayName(m) : m \in ConvergedMethods}
            /\ \A k \in 1..(Len(mc) - 1) : mc[k].score >= mc[k + 1].score

\* one method failed, one was not requested, and the two others are listed
\* against the fixed order
C6_Witness ==
    /\ OptimizeResponded
    /\ IsError(result.markowitz)
    /\ IsAbsent(result.hybrid)
    /\ ~IsError(result.optimal_selection)
    /\ Len(result.optimal_selection.method_comparison) = 2
    /\ result.optimal_selection.method_comparison[1].name = "Black Litterman"
    /\ result.optimal_selection.method_comparison[2].name = "Risk Parity"
    /\ result.optimal_selection.method_comparison[1].score
          > result.optimal_selection.method_comparison[2].score

\* the weights w sum to 1 within the tolerance and each lies in [0.01, 0.80]
WithinConstraints(w) ==
    /\ Abs(SumSeq([k \in DOMAIN w.num |-> w.num[k].val]) - w.den) * Scale <= SumTol * w.den
    /\ \A k \in DOMAIN w.num :
          /\ w.num[k].val * Scale >= WeightMin * w.den
          /\ w.num[k].val * Scale <= WeightMax * w.den

\* C7 as stated: every optimizer result that carries weights, the hybrid one
\* included, has weights that sum to 1 within the tolerance and lie in
\* [0.01, 0.80].
C7_AsStated ==
    endpoint = "optimize" /\ ~IsAbsent(result) =>
        \A m \in MethodSet : HasWeights(result[m]) => WithinConstraints(result[m].weights)

BadCount == Len(req.assets) < MinAssets \/ Len(req.assets) > MaxAssets

\* C8: on both endpoints a request with fewer than 2 or more than 20 assets
\* is answered with a client error, and up to that answer there is no provider
\* call, no stored data, no result and no optimizer run.
C8_RejectedBeforeComputation ==
    BadCount =>
        /\ pc \in {"validate", "done"}
        /\ calls = 0
        /\ runs = <<>>
        /\ idx = 1
        /\ portfolio_data = <<>>
        /\ IsAbsent(result)
        /\ pc = "done" => response.status = 400

\* a request of 21 assets was rejected
C8_Witness ==
    /\ pc = "done"
    /\ Len(req.assets) = MaxAssets + 1
    /\ response.status = 400
    /\ calls = 0

\* the symbols of the first n assets of the request, as the loop spells them
Requested(n) == {Upper(req.assets[k].symbol) : k \in 1..n}

PastFetch == pc \notin {"validate", "fetch"} /\ ~BadCount
              /\ ~(endpoint = "analyze" /\ WeightError(req.assets) # "")

\* C9: the retrieval loop visits every asset whatever happened to the ones
\* before it; a symbol is kept exactly when a retrieval of it returned
\* non-empty data, so one whose retrievals raised or returned nothing is left
\* out; with fewer than 2 symbols kept the request is answered 400
\* "insufficient data", and with 2 or more it goes on to the computation.
C9_PartialFailureTolerated ==
    /\ pc = "fetch" =>
          /\ calls = idx - 1
          /\ fetchlog.ok \cup fetchlog.failed = Requested(idx - 1)
    /\ pc \in {"fetch", "prepare"} => Range(Keys(portfolio_data)) = fetchlog.ok
    /\ PastFetch =>
          /\ idx = Len(req.assets) + 1
          /\ calls >= Len(req.assets)
          /\ fetchlog.ok \cup fetchlog.failed = Requested(Len(req.assets))
          /\ Range(Keys(portfolio_data)) = fetchlog.ok
          /\ (fetchlog.failed \ fetchlog.ok) \cap Range(Keys(portfolio_data)) = {}
    /\ PastFetch /\ pc # "prepare" =>
          IF Cardinality(fetchlog.ok) < 2
          THEN pc = "done" /\ response = [status |-> 400, detail |-> "insufficient data"]
          ELSE /\ price_data = PriceData(portfolio_data)
               /\ pc = "done" => response.detail # "insufficient data"

\* a symbol failed every time, two others were kept and the request was answered
C9_Witness ==
    /\ pc = "done"
    /\ response.status = 200
    /\ fetchlog.failed \ fetchlog.ok # {}
    /\ Upper(req.assets[1].symbol) \in fetchlog.failed \ fetchlog.ok
    /\ Len(portfolio_data) = 2

\* the requested symbols that are not among the columns of the computation
ExcludedSymbols == Requested(Len(req.assets)) \ Range(Keys(price_data))

SectionOf(t) == IF t = "correlation" THEN "correlation_matrix" ELSE t

\* C10 as stated: a successful response has a failed or error field whenever
\* a requested symbol was excluded or a requested analysis was not produced,
\* and every requested optimization method without weights carries an error.
C10_AsStated ==
    pc = "done" /\ response.status = 200 =>
        /\ ExcludedSymbols # {} => {"failed", "error"} \cap DOMAIN result # {}
        /\ endpoint = "analyze" =>
              \A t \in req.analysis_types :
                  SectionOf(t) \notin result.sections
                      => {"failed", "error"} \cap DOMAIN result # {}
        /\ endpoint = "optimize" =>
              \A m \in req.optimization_methods :
                  ~HasWeights(result[m]) => IsError(result[m])

\* the assets that produced usable price data: at least one observation with
\* both a close and a date
UsableAssets == Keys(PriceData(portfolio_data))

\* C11 as stated: when fewer than 2 assets produced usable price data, the
\* request is answered with a client error and no return matrix, statistics
\* or result is built.
C11_AsStated ==
    PastFetch /\ pc # "prepare" /\ Len(UsableAssets) < 2 =>
        /\ pc = "done"
        /\ response.status = 400
        /\ IsAbsent(stats)
        /\ IsAbsent(result)

\* the rows of the aligned return matrix
ReturnRows == MinLength(price_data) - 1

\* C12 as stated: when the aligned return matrix has fewer than 10 rows the
\* request fails, no optimizer is run and no risk metric is computed.
C12_AsStated ==
    PastFetch /\ pc # "prepare" /\ price_data # <<>> /\ ReturnRows < 10 =>
        /\ runs = <<>>
        /\ endpoint = "analyze" /\ ~IsAbsent(result) => "risk_metrics" \notin result.sections
        /\ pc = "done" => response.status # 200

TotalWeight == SumSeq([k \in DOMAIN req.assets |-> req.assets[k].weight])

WeightRejected == pc = "done" /\ response = [status |-> 400, detail |-> "weights must sum to about 100"]

\* C13 as stated: an analyze request is rejected with the weight-sum error
\* exactly when its weights sum to something more than 10 away from 100.
C13_AsStated ==
    endpoint = "analyze" /\ pc = "done" => (WeightRejected <=> Abs(TotalWeight - 100) > 10)

\* C13: an analyze request of 2 to 20 assets whose supplied weights sum to
\* more than 10 away from 100 is never retrieved and is answered with the
\* weight-sum error; one whose weights sum to 90..110 is never answered with
\* it; a request outside 2 to 20 assets gets the asset-count error instead.
C13_WeightSumChecked ==
    endpoint = "analyze" =>
        /\ ~BadCount /\ Abs(TotalWeight - 100) > 10 =>
              /\ pc \in {"validate", "done"}
              /\ calls = 0
              /\ portfolio_data = <<>>
              /\ pc = "done" => WeightRejected
        /\ ~BadCount /\ Abs(TotalWeight - 100) <= 10 => ~WeightRejected
        /\ BadCount => ~WeightRejected

\* a sum of 111 was rejected before any retrieval
C13_Witness ==
    /\ endpoint = "analyze"
    /\ TotalWeight = 111
    /\ WeightRejected
    /\ calls = 0

\* the positions of column r flagged by the z-score or the IQR criterion
Flagged(r) == {t \in DOMAIN r : ZOutlier(r, t) \/ IQROutlier(r, t)}

RECURSIVE ReturnsAt(_, _, _)
ReturnsAt(r, positions, t) ==
    IF t > Len(r) THEN <<>>
    ELSE (IF t \in positions THEN <<r[t]>> ELSE <<>>) \o ReturnsAt(r, positions, t + 1)

ReturnsOf(points) == [k \in DOMAIN points |-> points[k].return]

\* C14 as stated: for each asset the outliers list holds exactly the return
\* points flagged by the z-score or the IQR criterion, the normal list holds
\* the others, and total_outliers is the number of flagged points.
C14_AsStated ==
    pc = "done" /\ "outliers" \in DOMAIN result =>
        LET returns == Returns(price_data)
            data == result.outliers.data
        IN  /\ \A k \in DOMAIN returns :
                  /\ ReturnsOf(data[k].val.outliers)
                        = ReturnsAt(returns[k].val, Flagged(returns[k].val), 1)
                  /\ ReturnsOf(data[k].val.normal)
                        = ReturnsAt(returns[k].val, DOMAIN returns[k].val \ Flagged(returns[k].val), 1)
            /\ result.outliers.total_outliers
                  = SumSeq([k \in DOMAIN returns |-> Cardinality(Flagged(returns[k].val))])

\* C15: every column of the aligned price matrix has the length of the
\* shortest series and is that asset's last observations in their order, the
\* index has that length too, the columns are the assets with prices, and the
\* return matrix has one row less.
C15_AlignedToShortest ==
    price_data # <<>> =>
        LET df == Frame(price_data)
            returns == Returns(price_data)
            n == MinLength(price_data)
            index == FrameIndex(FirstDates(portfolio_data), n)
        IN  /\ \A k \in DOMAIN price_data : Len(price_data[k].val) >= n
            /\ \E k \in DOMAIN price_data : Len(price_data[k].val) = n
            /\ Keys(df) = Keys(price_data)
            /\ Keys(returns) = Keys(price_data)
            /\ Len(index) = n
            /\ \A k \in DOMAIN df :
                  /\ Len(df[k].val) = n
                  /\ \A j \in 1..n :
                        df[k].val[j] = price_data[k].val[Len(price_data[k].val) - n + j]
                  /\ Len(returns[k].val) = n - 1
            /\ ~IsAbsent(stats) => stats.symbols = Keys(price_data)

\* two series of different lengths were aligned and their statistics taken
C15_Witness ==
    /\ Len(price_data) = 2
    /\ Len(price_data[1].val) = 4
    /\ Len(price_data[2].val) = 3
    /\ price_data[1].val[1] # price_data[1].val[2]
    /\ ~IsAbsent(stats)
    /\ pc = "risk_parity"

\* C16: a solve of risk parity, Markowitz or Black-Litterman that does not
\* converge or that raises leaves a result holding an error of that method and
\* nothing else; the handler still runs every other requested method and
\* answers 200.
C16_SolverFailureIsAnErrorResult ==
    /\ \A m \in SolverMethods :
          solver[m].kind \in {"failed", "raised"} =>
              /\ DOMAIN result[m] = {"error"}
              /\ result[m].error[1] = m
    /\ pc \in {"finish", "done"} =>
          \A n \in req.optimization_methods :
              /\ ~IsAbsent(result[n])
              /\ n \in SolverMethods => solver[n].kind # "unsolved"
    /\ pc = "done" => response.status = 200

\* risk parity raised, Markowitz did not converge, and Black-Litterman then
\* ran and converged
C16_Witness ==
    /\ pc = "done"
    /\ solver.risk_parity.kind = "raised"
    /\ solver.markowitz.kind = "failed"
    /\ solver.black_litterman.kind = "converged"
    /\ HasWeights(result.black_litterman)
    /\ response.status = 200

\* twice the plain average of the two weights of symbol s, over the common
\* denominator rp.den * mv.den
TwiceAverage(rp, mv, s) == Get(rp.num, s) * mv.den + Get(mv.num, s) * rp.den

\* C17: when hybrid yields weights, they are over exactly the symbols that
\* both maps hold, each weight times the sum of the averages is the average
\* (rp + mv) / 2 of that symbol, and the weights sum to 1.
C17_HybridIsNormalizedAverage ==
    AfterHybrid /\ HasWeights(result.hybrid) =>
        LET rp == result.risk_parity.weights
            mv == result.markowitz.weights
            hw == result.hybrid.weights
            common == WKeys(rp) \cap WKeys(mv)
            total == SumSeq([k \in DOMAIN rp.num |->
                                IF rp.num[k].key \in common
                                THEN TwiceAverage(rp, mv, rp.num[k].key) ELSE 0])
        IN  /\ WKeys(hw) = common
            /\ Len(hw.num) = Cardinality(common)
            /\ hw.den > 0
            /\ \A s \in common : Get(hw.num, s) * total = TwiceAverage(rp, mv, s) * hw.den
            /\ SumSeq([k \in DOMAIN hw.num |-> hw.num[k].val]) = hw.den

\* the two maps differ in a symbol and in their weights, and hybrid has weights
C17_Witness ==
    /\ AfterHybrid
    /\ HasWeights(result.hybrid)
    /\ WKeys(result.risk_parity.weights) # WKeys(result.markowitz.weights)
    /\ \E s \in WKeys(result.hybrid.weights) :
          Get(result.risk_parity.weights.num, s) # Get(result.markowitz.weights.num, s)

\* the bonus of each method, in score points
StatedBonus(m) ==
    CASE m = "risk_parity" -> 5
      [] m = "markowitz" -> 8
      [] m = "hybrid" -> 10
      [] m = "black_litterman" -> 7

\* the score of converged method m, less its Sharpe, return and bonus terms,
\* in hundredths of a point: what is left is the volatility term
VolatilityTerm(m, score) ==
    score - (25 * result[m].sharpe_ratio + result[m].expected_return + 100 * StatedBonus(m))

\* C18: the score listed for every converged method is 25 * Sharpe
\* + 100 * return + max(0, 25 - 100 * volatility) + bonus, with bonus 5, 8, 10
\* and 7; the volatility term is never negative and is 0 from a volatility of
\* 0.25 on.
C18_CompositeScore ==
    OptimizeResponded /\ ~IsError(result.optimal_selection) =>
        LET mc == result.optimal_selection.method_comparison
        IN  \A m \in ConvergedMethods :
              \E k \in DOMAIN mc :
                  /\ mc[k].name = DisplayName(m)
                  /\ VolatilityTerm(m, mc[k].score) >= 0
                  /\ result[m].volatility >= 25 => VolatilityTerm(m, mc[k].score) = 0
                  /\ result[m].volatility < 25 =>
                        VolatilityTerm(m, mc[k].score) = 100 * (25 - result[m].volatility)

\* methods with a volatility below, at and above 0.25 were scored
C18_Witness ==
    /\ OptimizeResponded
    /\ ~IsError(result.optimal_selection)
    /\ ConvergedMethods = MethodSet
    /\ result.risk_parity.volatility = 10
    /\ result.markowitz.volatility = 25
    /\ result.hybrid.volatility = 30
    /\ result.optimal_selection.best_method = "Risk Parity"

Suggested(title) == title \in Range(result.recommendations.suggestions)

\* the sum of the volatilities of the converged methods, in percent
VolatilitySum ==
    SumSeq([k \in DOMAIN Methods |->
        IF Methods[k] \in ConvergedMethods THEN result[Methods[k]].volatility ELSE 0])

\* C19: with avg the average volatility and best the best Sharpe ratio of the
\* converged methods, and n the number of assets of the request: the
\* volatility warning is given iff avg > 0.25 and the low-volatility note iff
\* avg < 0.10; the Sharpe note iff best > 1.5 and the caution iff best < 0.5;
\* the diversification suggestion iff n < 5 and the complexity one iff
\* n > 15.  On a threshold nothing is given, and never both of one rule.
C19_AdvisorThresholds ==
    OptimizeResponded =>
        LET n == Cardinality(ConvergedMethods)
        IN  /\ Suggested("Alta Volatilidad") <=> n > 0 /\ VolatilitySum > 25 * n
            /\ Suggested("Baja Volatilidad") <=> n > 0 /\ VolatilitySum < 10 * n
            /\ Suggested("Excelente Ratio Sharpe")
                  <=> \E m \in ConvergedMethods : result[m].sharpe_ratio > 150
            /\ Suggested("Ratio Sharpe Bajo")
                  <=> n > 0 /\ \A m \in ConvergedMethods : result[m].sharpe_ratio < 50
            /\ Suggested("Diversificacion Limitada") <=> Len(req.assets) < 5
            /\ Suggested("Portafolio Complejo") <=> Len(req.assets) > 15
            /\ ~(Suggested("Alta Volatilidad") /\ Suggested("Baja Volatilidad"))
            /\ ~(Suggested("Excelente Ratio Sharpe") /\ Suggested("Ratio Sharpe Bajo"))
            /\ ~(Suggested("Diversificacion Limitada") /\ Suggested("Portafolio Complejo"))

\* average volatility exactly 0.25, best Sharpe exactly 0.5 and 15 assets:
\* nothing is suggested
C19_Witness ==
    /\ OptimizeResponded
    /\ ConvergedMethods = {"risk_parity", "markowitz"}
    /\ result.risk_parity.volatility = 24
    /\ result.markowitz.volatility = 26
    /\ result.risk_parity.sharpe_ratio = 50
    /\ result.markowitz.sharpe_ratio = 49
    /\ Len(req.assets) = 15
    /\ result.recommendations.suggestions = <<>>

\* a symbol with its lower-case letters folded to upper case
Folded(s) == [i \in DOMAIN s |-> IF s[i] \in 97..122 THEN s[i] - 32 ELSE s[i]]

\* the distinct symbols of the request, letter case aside
DistinctSymbols == {Folded(req.assets[k].symbol) : k \in DOMAIN req.assets}

NoRepeats(q) == Cardinality(Range(q)) = Len(q)

\* C20: the stored assets, the price columns and the columns of the
\* statistics each hold a symbol at most once, in upper case, and only
\* symbols of the request; a request whose entries come to fewer than 2
\* distinct symbols never reaches the computation and is answered 400, with
\* "insufficient data" once its prices have been retrieved.
C20_SymbolsDeduplicated ==
    /\ NoRepeats(Keys(portfolio_data))
    /\ NoRepeats(Keys(price_data))
    /\ \A s \in Range(Keys(portfolio_data)) : s = Folded(s) /\ s \in DistinctSymbols
    /\ Len(portfolio_data) <= Cardinality(DistinctSymbols)
    /\ ~IsAbsent(stats) => NoRepeats(stats.symbols) /\ Range(stats.symbols) \subseteq DistinctSymbols
    /\ Cardinality(DistinctSymbols) < 2 =>
          /\ IsAbsent(result)
          /\ IsAbsent(stats)
          /\ runs = <<>>
          /\ pc = "done" => response.status = 400
          /\ pc = "done" /\ calls > 0 => response.detail = "insufficient data"

\* "A" and "a" were both retrieved, stored as one asset, and the request
\* was rejected
C20_Witness ==
    /\ pc = "done"
    /\ Len(req.assets) = 2
    /\ req.assets[1].symbol = <<65>>
    /\ req.assets[2].symbol = <<97>>
    /\ fetchlog = [ok |-> {<<65>>}, failed |-> {}]
    /\ calls = 2
    /\ Keys(portfolio_data) = <<<<65>>>>
    /\ response = [status |-> 400, detail |-> "insufficient data"]

\* what a handler answers to a request, given what the provider returned for
\* its symbols and how its solver runs ended
Outcome(ep, rq, pd, o) ==
    IF CountError(rq.assets) # ""
    THEN [response |-> [status |-> 400, detail |-> CountError(rq.assets)], result |-> Absent]
    ELSE IF ep = "analyze" /\ WeightError(rq.assets) # ""
    THEN [response |-> [status |-> 400, detail |-> WeightError(rq.assets)], result |-> Absent]
    ELSE IF Len(pd) < 2
    THEN [response |-> [status |-> 400, detail |-> "insufficient data"], result |-> Absent]
    ELSE IF PriceData(pd) = <<>>
    THEN [response |-> IF ep = "analyze"
                       THEN [status |-> 400, detail |-> "no price data"]
                       ELSE [status |-> 500, detail |-> "min() arg is an empty sequence"],
          result |-> Absent]
    ELSE IF ep = "optimize"
    THEN [response |-> [status |-> 200, detail |-> ""],
          result |-> Finished(SequentialResult(rq, Statistics(Returns(PriceData(pd))), o), rq)]
    ELSE [response |-> [status |-> 200, detail |-> ""],
          result |-> [success |-> TRUE, assets_analyzed |-> Len(pd),
                      sections |-> Sections(rq.analysis_types)]]

\* C21: whatever the process answered before, the data a handler holds after
\* its loop is the data the provider returned for this request's symbols, and
\* the answer is the one determined by the request, that data and the solver
\* runs of this request
C21_ResponseDependsOnRequestOnly ==
    /\ pc \in {"fetch", "prepare"} => Range(Keys(portfolio_data)) = fetchlog.ok
    /\ pc = "validate" => portfolio_data = <<>> /\ result = Absent /\ response = Absent
    /\ pc = "done" =>
          /\ Range(Keys(portfolio_data)) = fetchlog.ok
          /\ [response |-> response, result |-> result]
                = Outcome(endpoint, req, portfolio_data, solver)

C21_Witness ==
    /\ served = 1
    /\ pc = "done"
    /\ endpoint = "optimize"
    /\ response.status = 200
    /\ ~IsError(result.optimal_selection)

\* the request rq with the weight of its k-th asset replaced by ws[k]
Reweighted(rq, ws) ==
    [rq EXCEPT !.assets = [k \in DOMAIN rq.assets |-> [rq.assets[k] EXCEPT !.weight = ws[k]]]]

\* C22: the answer to an optimize request (its status, its results, the
\* selection and the recommendations) is the answer to every request that
\* differs from it only in the weights of its assets
C22_OptimizeIgnoresWeights ==
    pc = "done" /\ endpoint = "optimize" =>
        \A ws \in [DOMAIN req.assets -> WeightValues] :
            [response |-> response, result |-> result]
                = Outcome("optimize", Reweighted(req, ws), portfolio_data, solver)

C22_Witness ==
    /\ pc = "done"
    /\ endpoint = "optimize"
    /\ response.status = 200
    /\ req.assets[1].weight + req.assets[2].weight = -40
    /\ ~IsError(result.optimal_selection)

\* the portfolio's daily returns in the risk metrics block
BlockReturns == PortfolioReturns(Returns(price_data), ColumnWeights(portfolio_data, price_data))

\* the benchmark's daily returns in the risk metrics block
MarketReturns == BenchmarkReturns(market, MinLength(price_data))

OtherMetrics ==
    {"portfolio_volatility", "portfolio_return", "var_95", "cvar_95", "max_drawdown",
     "individual_volatility", "diversification_ratio", "sharpe_ratio"}

\* C23: when the provider raises for the benchmark, returns no data for it,
\* or returns fewer returns than the portfolio has, portfolio_beta and
\* r_squared are both None, the response is still a success and carries every
\* other risk metric; a beta or R-squared that is reported was computed from
\* benchmark returns of exactly the portfolio's length.
C23_BenchmarkIsOptional ==
    pc = "done" /\ "risk_metrics" \in DOMAIN result =>
        LET rm == result.risk_metrics
            s == Newest(MarketReturns, Len(BlockReturns))
        IN  /\ response.status = 200
            /\ OtherMetrics \subseteq DOMAIN rm
            /\ (market.kind = "raise" \/ NoData(market) \/ Len(MarketReturns) < Len(BlockReturns))
                  => (rm.portfolio_beta = None /\ rm.r_squared = None)
            /\ (rm.portfolio_beta # None \/ rm.r_squared # None)
                  => /\ Len(s) = Len(BlockReturns)
                     /\ rm.r_squared = RSquared(BlockReturns, s)
                     /\ rm.portfolio_beta =
                            IF CovN(s, s) > 0
                            THEN Number((CovN(BlockReturns, s) * 100) \div CovN(s, s))
                            ELSE None

C23_Witness ==
    /\ pc = "done"
    /\ market.kind = "ok"
    /\ Len(MarketReturns) = 2
    /\ Len(BlockReturns) = 3
    /\ result.risk_metrics.portfolio_beta = None
    /\ result.risk_metrics.r_squared = None
    /\ result.risk_metrics.portfolio_volatility > 0

\* C24 as stated: in the risk metrics block a volatility of 0 gives a Sharpe
\* ratio and a diversification ratio of 0, a benchmark variance of 0 gives a
\* null beta, and the sum the weights are divided by is never 0.
C24_AsStated ==
    pc = "done" /\ "risk_metrics" \in DOMAIN result =>
        LET rm == result.risk_metrics
        IN  /\ rm.portfolio_volatility = 0
                  => rm.sharpe_ratio = 0 /\ rm.diversification_ratio = 0
            /\ (Len(MarketReturns) >= Len(BlockReturns)
                    /\ CovN(Newest(MarketReturns, Len(BlockReturns)),
                            Newest(MarketReturns, Len(BlockReturns))) = 0)
                  => rm.portfolio_beta = None
            /\ SumSeq(ColumnWeights(portfolio_data, price_data)) # 0

\* the cumulative value of the portfolio grows at every step
StrictlyIncreasing(c) == \A t \in 2..Len(c) : c[t] > c[t - 1]

\* C25: for a portfolio return series that is not empty and whose returns are
\* all above -100 percent, max_drawdown is at most 0, and it is 0 when the
\* cumulative value is strictly increasing.
C25_DrawdownAtMostZero ==
    pc = "done" /\ "risk_metrics" \in DOMAIN result =>
        IF BlockReturns # <<>> /\ \A t \in DOMAIN BlockReturns : BlockReturns[t] > -10000
        THEN /\ result.risk_metrics.max_drawdown <= 0
             /\ StrictlyIncreasing(CumulativeReturns(BlockReturns))
                    => result.risk_metrics.max_drawdown = 0
        ELSE TRUE

C25_Witness ==
    /\ pc = "done"
    /\ "risk_metrics" \in DOMAIN result
    /\ Len(BlockReturns) = 3
    /\ StrictlyIncreasing(CumulativeReturns(BlockReturns))
    /\ result.risk_metrics.max_drawdown = 0
    /\ result.risk_metrics.portfolio_volatility > 0

\* C26 as stated: a successful analyze response has the section of every
\* analysis type the request lists, whatever the other listed types are.
C26_AsStated ==
    pc = "done" /\ endpoint = "analyze" /\ response.status = 200 =>
        \A t \in req.analysis_types : SectionOf(t) \in result.sections

\* the converged methods whose composite score no converged method exceeds
TopMethods ==
    {m \in ConvergedMethods :
        \A n \in ConvergedMethods : TotalScore(m, result[m]) >= TotalScore(n, result[n])}

\* the first of the methods ms in the fixed order of the selector
Earliest(ms) ==
    Methods[CHOOSE k \in DOMAIN Methods :
                Methods[k] \in ms /\ \A j \in 1..(k - 1) : Methods[j] \notin ms]

\* C27: best_method is the name of the first entry of method_comparison and
\* total_score is that entry's score; among methods with the same top score
\* both name the earliest in the order risk_parity, markowitz, hybrid,
\* black_litterman.
C27_SelectionAgreesWithRanking ==
    OptimizeResponded /\ ~IsError(result.optimal_selection) =>
        LET sel == result.optimal_selection
        IN  /\ sel.best_method = sel.method_comparison[1].name
            /\ sel.total_score = sel.method_comparison[1].score
            /\ sel.best_method = DisplayName(Earliest(TopMethods))

C27_Witness ==
    /\ OptimizeResponded
    /\ ~IsError(result.optimal_selection)
    /\ Cardinality(TopMethods) >= 2
    /\ "black_litterman" \in TopMethods
    /\ result.optimal_selection.best_method # "Risk Parity"
    /\ Len(result.optimal_selection.method_comparison) >= 3

RiskLevel == result.recommendations.risk_assessment.level

\* C28: the recommendations carry one risk level: ALTO iff the average
\* volatility of the converged methods is above 0.20, MEDIO iff it is above
\* 0.12 and at most 0.20 or no method converged, BAJO iff it is at most 0.12;
\* the high-volatility warning comes only with ALTO and the low-volatility
\* note only with BAJO.
C28_RiskLevelFromVolatility ==
    OptimizeResponded =>
        LET n == Cardinality(ConvergedMethods)
        IN  /\ RiskLevel \in {"ALTO", "MEDIO", "BAJO"}
            /\ RiskLevel = "ALTO" <=> (n > 0 /\ VolatilitySum > 20 * n)
            /\ RiskLevel = "MEDIO"
                  <=> (n = 0 \/ (VolatilitySum > 12 * n /\ VolatilitySum <= 20 * n))
            /\ RiskLevel = "BAJO" <=> (n > 0 /\ VolatilitySum <= 12 * n)
            /\ Suggested("Alta Volatilidad") => RiskLevel = "ALTO"
            /\ Suggested("Baja Volatilidad") => RiskLevel = "BAJO"

\* an average volatility of exactly 0.20 is still MEDIO
C28_Witness ==
    /\ OptimizeResponded
    /\ ConvergedMethods = {"risk_parity", "markowitz"}
    /\ result.risk_parity.volatility = 20
    /\ result.markowitz.volatility = 20
    /\ RiskLevel = "MEDIO"

\* C29 as stated: the asset-count rule of the recommendations is applied to
\* assets_optimized, the number of symbols in the return matrix: the
\* diversification suggestion is given iff that number is below 5 and the
\* complexity suggestion iff it is above 15.
C29_AsStated ==
    OptimizeResponded /\ response.status = 200 =>
        /\ Suggested("Diversificacion Limitada") <=> result.assets_optimized < 5
        /\ Suggested("Portafolio Complejo") <=> result.assets_optimized > 15

\* the Markowitz block has run
AfterMarkowitz == pc \in {"hybrid", "black_litterman", "finish", "done"}

\* C30: optimize_markowitz gives the solver the return-equality constraint
\* iff the objective is "target_return", and then a converged solution has
\* the target return; a result with weights echoes the objective string and
\* has a non-null target_return iff the objective is "target_return"; any
\* objective other than max_sharpe, min_volatility and target_return is
\* solved as max_diversification, with the same result but for the echo.
C30_ObjectiveHandling ==
    AfterMarkowitz /\ "markowitz" \in req.optimization_methods =>
        LET mk == result.markowitz
            sv == solver.markowitz
            named == {"max_sharpe", "min_volatility", "target_return"}
        IN  /\ "return" \in Range(sv.constraints) <=> req.objective = "target_return"
            /\ sv.kind = "converged" <=> HasWeights(mk)
            /\ HasWeights(mk) =>
                  /\ mk.objective = req.objective
                  /\ mk.target_return # {} <=> req.objective = "target_return"
                  /\ req.objective = "target_return" =>
                        /\ mk.target_return = {req.target_return}
                        /\ mk.expected_return = req.target_return
            /\ req.objective \notin named =>
                  /\ sv.minimizes = ObjectiveFunction("max_diversification")
                  /\ sv.constraints = Constraints("max_diversification")
                  /\ mk = IF HasWeights(mk)
                          THEN [optimize_markowitz(sv, stats, "max_diversification",
                                                   req.target_return, req.risk_free_rate)
                                   EXCEPT !.objective = req.objective]
                          ELSE optimize_markowitz(sv, stats, "max_diversification",
                                                  req.target_return, req.risk_free_rate)

C30_Witness ==
    /\ pc = "done"
    /\ req.objective = "target_return"
    /\ HasWeights(result.markowitz)
    /\ result.markowitz.target_return = {req.target_return}
    /\ result.markowitz.expected_return = req.target_return
    /\ Len(result.symbols) = 3

====
